---- MODULE Spec2Model ----
(***************************************************************************)
(* Editing core of the Kaizen skin editor: region validator, geometry and  *)
(* colour primitives, tool engine, command history, synchronization        *)
(* manager.  Every definition is a transcription of the TypeScript source  *)
(* named in MODEL_MAP.json.                                                *)
(*                                                                         *)
(* Encoding notes.                                                         *)
(*  - A layer's ImageData is the pair (base image, sparse overrides): the  *)
(*    colour at (x,y) is px[<<x,y>>] when present and the base image's     *)
(*    colour otherwise.  setPixel keeps the overrides normalised, so two   *)
(*    layers hold the same pixels iff their records are equal.             *)
(*  - Layer objects live in a heap (layerObj) indexed by identity; the     *)
(*    document's layer list and the commands hold identities, which keeps  *)
(*    the source's aliasing between a command's layer and the document's.  *)
(*  - Colours are <<r,g,b,a>>; opacity is the rational OpNum/OpDen.        *)
(***************************************************************************)
EXTENDS Integers, Sequences, FiniteSets, TLC

VARIABLES
  \* document and command history
  layers, layerObj, usedIds, undoStack, redoStack, currentMemory, maxMemory,
  nextCmdId, ret, lastOp, hist,
  \* synchronization manager
  subscribers, pendingEvents, rafId, sync,
  \* a question put to the region validator or to a geometry or colour
  \* function, with its answer
  query,
  \* the store's composite-update requester
  composite,
  \* tool engine and the view that drives it
  cfg, tool, gesture, view

docVars  == <<layers, layerObj, usedIds>>
histVars == <<undoStack, redoStack, currentMemory, maxMemory, nextCmdId, ret, lastOp, hist>>
syncVars == <<subscribers, pendingEvents, rafId, sync>>
toolVars == <<cfg, tool, gesture, view>>
vars == <<docVars, histVars, syncVars, query, composite, toolVars>>

(***************************************************************************)
(* Program constants                                                       *)
(***************************************************************************)
TextureWidth == 64
ModernHeight == 64
LegacyHeight == 32
DrawBytesPerPixel == 12
LayerOverhead == 200
SmallCommandSize == 100
DefaultMaxMemory == 50 * 1024 * 1024

Min(a, b) == IF a < b THEN a ELSE b
Max(a, b) == IF a > b THEN a ELSE b
Abs(a) == IF a < 0 THEN -a ELSE a
\* Math.round of the non-negative rational n/d (round half up)
RoundDiv(n, d) == (2 * n + d) \div (2 * d)

(***************************************************************************)
(* Region validator                                                        *)
(***************************************************************************)
BASE_UV_REGIONS_SHIFTED ==
  << <<8, 0, 24, 8>>, <<0, 8, 33, 16>>,
     <<4, 16, 12, 20>>, <<0, 20, 16, 32>>,
     <<20, 16, 36, 20>>, <<16, 20, 40, 32>>,
     <<44, 16, 52, 20>>, <<40, 20, 56, 32>>,
     <<20, 48, 28, 52>>, <<16, 52, 32, 64>>,
     <<36, 48, 44, 52>>, <<32, 52, 48, 64>> >>

BASE_UV_REGIONS ==
  << <<8, 0, 24, 8>>, <<0, 8, 32, 16>>,
     <<4, 16, 12, 20>>, <<0, 20, 16, 32>>,
     <<20, 16, 36, 20>>, <<16, 20, 40, 32>>,
     <<44, 16, 52, 20>>, <<40, 20, 56, 32>>,
     <<20, 48, 28, 52>>, <<16, 52, 32, 64>>,
     <<36, 48, 44, 52>>, <<32, 52, 48, 64>> >>

\* an overlay table without the back face of the left arm
OVERLAY_UV_REGIONS_SHORT ==
  << <<40, 0, 56, 8>>, <<32, 8, 64, 16>>,
     <<4, 32, 12, 36>>, <<0, 36, 16, 48>>,
     <<20, 32, 36, 36>>, <<16, 36, 40, 48>>,
     <<44, 32, 52, 36>>, <<40, 36, 56, 48>>,
     <<4, 48, 12, 52>>, <<0, 52, 16, 64>>,
     <<52, 48, 60, 52>>, <<48, 52, 60, 64>> >>

OVERLAY_UV_REGIONS ==
  << <<40, 0, 56, 8>>, <<32, 8, 64, 16>>,
     <<4, 32, 12, 36>>, <<0, 36, 16, 48>>,
     <<20, 32, 36, 36>>, <<16, 36, 40, 48>>,
     <<44, 32, 52, 36>>, <<40, 36, 56, 48>>,
     <<4, 48, 12, 52>>, <<0, 52, 16, 64>>,
     <<52, 48, 60, 52>>, <<48, 52, 64, 64>> >>

InRegion(x, y, r) == x >= r[1] /\ x < r[3] /\ y >= r[2] /\ y < r[4]

isBasePixel(x, y) ==
  \E i \in 1..Len(BASE_UV_REGIONS) : InRegion(x, y, BASE_UV_REGIONS[i])

isOverlayPixel(x, y) ==
  \E i \in 1..Len(OVERLAY_UV_REGIONS) : InRegion(x, y, OVERLAY_UV_REGIONS[i])

isValidForPaintTarget(x, y, paintTarget) ==
  IF paintTarget = "base" THEN isBasePixel(x, y) ELSE isOverlayPixel(x, y)

isInBounds(x, y, width, height) == x >= 0 /\ x < width /\ y >= 0 /\ y < height

(***************************************************************************)
(* Colours and layer buffers                                               *)
(***************************************************************************)
Transparent == <<0, 0, 0, 0>>
DEFAULT_SKIN_COLOR == <<180, 180, 180, 255>>
Red == <<255, 0, 0, 255>>
Blue == <<0, 0, 255, 128>>

\* The image a layer was allocated with: createSkinLayer's flat default
\* ("skin": base regions grey, everything else transparent), an empty
\* ImageData, or "image".
\* "image" is a decoded picture (Steve's skin, an imported skin): 2x2 tiles
\* of four colours, the grey tile with a slightly different right column.
TileColor(x, y) ==
  CASE (x \div 2) % 2 = 0 /\ (y \div 2) % 2 = 0 ->
         (IF x % 2 = 0 THEN DEFAULT_SKIN_COLOR ELSE <<172, 180, 180, 255>>)
    [] (x \div 2) % 2 = 1 /\ (y \div 2) % 2 = 0 -> Transparent
    [] (x \div 2) % 2 = 0 /\ (y \div 2) % 2 = 1 -> <<200, 40, 40, 255>>
    [] OTHER -> Blue

BaseImageColor(base, x, y) ==
  CASE base = "skin" -> (IF isBasePixel(x, y) THEN DEFAULT_SKIN_COLOR ELSE Transparent)
    [] base = "image" -> TileColor(x, y)
    [] OTHER -> Transparent

\* createLayer / createSkinLayer: a layer object of the given height
NewLayer(base, height) ==
  [base |-> base, height |-> height, px |-> <<>>, visible |-> TRUE, locked |-> FALSE]

\* skin.ts keeps its own table of the base regions for createSkinLayer
SKIN_BASE_UV_REGIONS ==
  << <<8, 0, 24, 8>>, <<0, 8, 32, 16>>,
     <<4, 16, 12, 20>>, <<0, 20, 16, 32>>,
     <<20, 16, 36, 20>>, <<16, 20, 40, 32>>,
     <<44, 16, 52, 20>>, <<40, 20, 56, 32>>,
     <<20, 48, 28, 52>>, <<16, 52, 32, 64>>,
     <<36, 48, 44, 52>>, <<32, 52, 48, 64>> >>

\* a layer filled in every pixel
createSkinLayerOpaque(id, name, width, height, fillColor) ==
  [id |-> id, name |-> name, visible |-> TRUE, locked |-> FALSE,
   width |-> width, height |-> height,
   data |-> [idx \in 0..(width * height - 1) |-> fillColor]]

\* createSkinLayer, with its ImageData written out: data[idx] is the pixel
\* at index (y * width + x), zero where the loop stores nothing; id is the
\* crypto.randomUUID() drawn
createSkinLayer(id, name, width, height, fillColor) ==
  [id |-> id, name |-> name, visible |-> TRUE, locked |-> FALSE,
   width |-> width, height |-> height,
   data |-> [idx \in 0..(width * height - 1) |->
               IF \E i \in 1..Len(SKIN_BASE_UV_REGIONS) :
                    InRegion(idx % width, idx \div width, SKIN_BASE_UV_REGIONS[i])
               THEN fillColor ELSE Transparent]]

\* createSkinDocument(options): an option left out is "default"; steveSkin
\* is what getSteveSkin() returns, the decoded picture or, before it has
\* loaded, an empty 64 x 64 ImageData
createSkinDocument(options, steveSkin, id) ==
  LET format == IF options.format = "default" THEN "modern" ELSE options.format
      height == IF format = "modern" THEN ModernHeight ELSE LegacyHeight
      useSteve == IF options.useSteveSkin = "default" THEN TRUE
                  ELSE options.useSteveSkin = "true"
      layer ==
        IF useSteve /\ format = "modern"
        THEN [id |-> id, name |-> "Background", visible |-> TRUE, locked |-> FALSE,
              width |-> TextureWidth, height |-> ModernHeight,
              data |-> [idx \in 0..(TextureWidth * ModernHeight - 1) |->
                          BaseImageColor(steveSkin, idx % TextureWidth,
                                         idx \div TextureWidth)]]
        ELSE createSkinLayer(id, "Background", TextureWidth, height, DEFAULT_SKIN_COLOR)
  IN [name |-> IF options.name = "default" THEN "Untitled" ELSE options.name,
      format |-> format,
      model |-> IF options.model = "default" THEN "classic" ELSE options.model,
      width |-> TextureWidth, height |-> height,
      layers |-> <<layer>>, activeLayerId |-> layer.id]

DataLength(layer) == TextureWidth * layer.height * 4

\* imageData.data[(y * width + x) * 4 ..] as a pixel: index arithmetic as in
\* the source; an index outside the buffer reads undefined
PixelIndex(x, y) == y * TextureWidth + x
IndexInBuffer(layer, idx) == idx >= 0 /\ idx < TextureWidth * layer.height
KeyOfIndex(idx) == <<idx % TextureWidth, idx \div TextureWidth>>

ReadIndex(layer, idx) ==
  LET k == KeyOfIndex(idx) IN
  IF k \in DOMAIN layer.px THEN layer.px[k] ELSE BaseImageColor(layer.base, k[1], k[2])

\* a typed-array store: silently ignored outside the buffer
WriteIndex(layer, idx, color) ==
  IF ~IndexInBuffer(layer, idx) THEN layer
  ELSE LET k == KeyOfIndex(idx)
           dflt == BaseImageColor(layer.base, k[1], k[2])
           dom == IF color = dflt THEN DOMAIN layer.px \ {k} ELSE DOMAIN layer.px \cup {k}
       IN [layer EXCEPT !.px = IF color # dflt THEN (k :> color) @@ @
                               ELSE IF k \in DOMAIN @ THEN [q \in dom |-> @[q]]
                               ELSE @]

(***************************************************************************)
(* Commands                                                                *)
(***************************************************************************)
Pixel(x, y, color) == [x |-> x, y |-> y, color |-> color]

\* one record shape for the five command classes; fields a class does not
\* have keep their neutral value
Command(id, kind) ==
  [id |-> id, kind |-> kind, layerId |-> "", originalPixels |-> <<>>, newPixels |-> <<>>,
   insertIndex |-> 0, hasDeleted |-> FALSE, deletedIndex |-> -1,
   property |-> "", newValue |-> FALSE, oldValue |-> "undefined", commands |-> <<>>]

DrawCommand(id, layerId, originalPixels, newPixels) ==
  [Command(id, "draw") EXCEPT !.layerId = layerId, !.originalPixels = originalPixels,
                              !.newPixels = newPixels]
CreateLayerCommand(id, layerId, insertIndex) ==
  [Command(id, "create") EXCEPT !.layerId = layerId, !.insertIndex = insertIndex]
DeleteLayerCommand(id, layerId) ==
  [Command(id, "delete") EXCEPT !.layerId = layerId]
LayerPropertyCommand(id, layerId, property, newValue) ==
  [Command(id, "property") EXCEPT !.layerId = layerId, !.property = property,
                                  !.newValue = newValue]
CompositeCommand(id, commands) ==
  [Command(id, "composite") EXCEPT !.commands = commands]

\* Array.prototype.findIndex over document.layers (0-based, -1 when absent)
FindIndex(ls, id) ==
  IF \E i \in 1..Len(ls) : ls[i] = id
  THEN (CHOOSE i \in 1..Len(ls) : ls[i] = id /\ \A j \in 1..(i - 1) : ls[j] # id) - 1
  ELSE -1

\* Array.prototype.splice(start, 0, x) and splice(index, 1)
SpliceInsert(ls, start, x) ==
  LET s == IF start < 0 THEN Max(Len(ls) + start, 0) ELSE Min(start, Len(ls))
  IN SubSeq(ls, 1, s) \o <<x>> \o SubSeq(ls, s + 1, Len(ls))
SpliceRemove(ls, index) == SubSeq(ls, 1, index) \o SubSeq(ls, index + 2, Len(ls))

\* for (const pixel of pixels) over pixels[lo..hi], in order; the range is
\* halved, and the first half is evaluated before the second starts, so
\* that long lists are evaluated without deep nesting
RECURSIVE WritePixels(_, _, _, _)
WritePixels(layer, pixels, lo, hi) ==
  IF lo > hi THEN layer
  ELSE IF lo = hi
  THEN WriteIndex(layer, PixelIndex(pixels[lo].x, pixels[lo].y), pixels[lo].color)
  ELSE CHOOSE r \in {WritePixels(left, pixels, ((lo + hi) \div 2) + 1, hi) :
                     left \in {WritePixels(layer, pixels, lo, (lo + hi) \div 2)}} : TRUE

SetProperty(layer, property, value) ==
  IF property = "visible" THEN [layer EXCEPT !.visible = value]
  ELSE [layer EXCEPT !.locked = value]
GetProperty(layer, property) ==
  IF property = "visible" THEN layer.visible ELSE layer.locked

DrawExecute(c, d) ==
  IF FindIndex(d.layers, c.layerId) = -1 THEN [doc |-> d, cmd |-> c]
  ELSE [doc |-> [d EXCEPT !.obj[c.layerId] =
                              WritePixels(@, c.newPixels, 1, Len(c.newPixels))],
        cmd |-> c]

\* an undo that does not look its layer up in document.layers
DrawUndoUnguarded(c, d) ==
  [d EXCEPT !.obj[c.layerId] = WritePixels(@, c.originalPixels, 1, Len(c.originalPixels))]

DrawUndo(c, d) ==
  IF FindIndex(d.layers, c.layerId) = -1 THEN d
  ELSE [d EXCEPT !.obj[c.layerId] = WritePixels(@, c.originalPixels, 1, Len(c.originalPixels))]

CreateExecute(c, d) ==
  [doc |-> [d EXCEPT !.layers = SpliceInsert(@, c.insertIndex, c.layerId)], cmd |-> c]

CreateUndoKeepsLayer(c, d) == d

CreateUndo(c, d) ==
  LET index == FindIndex(d.layers, c.layerId) IN
  IF index # -1 THEN [d EXCEPT !.layers = SpliceRemove(@, index)] ELSE d

DeleteExecute(c, d) ==
  LET index == FindIndex(d.layers, c.layerId) IN
  IF index # -1
  THEN [doc |-> [d EXCEPT !.layers = SpliceRemove(@, index)],
        cmd |-> [c EXCEPT !.deletedIndex = index, !.hasDeleted = TRUE]]
  ELSE [doc |-> d, cmd |-> [c EXCEPT !.deletedIndex = index]]

DeleteUndo(c, d) ==
  IF c.hasDeleted /\ c.deletedIndex # -1
  THEN [d EXCEPT !.layers = SpliceInsert(@, c.deletedIndex, c.layerId)]
  ELSE d

PropertyExecute(c, d) ==
  IF FindIndex(d.layers, c.layerId) = -1 THEN [doc |-> d, cmd |-> c]
  ELSE [doc |-> [d EXCEPT !.obj[c.layerId] = SetProperty(@, c.property, c.newValue)],
        cmd |-> [c EXCEPT !.oldValue = GetProperty(d.obj[c.layerId], c.property)]]

PropertyUndo(c, d) ==
  IF FindIndex(d.layers, c.layerId) = -1 THEN d
  ELSE [d EXCEPT !.obj[c.layerId] = SetProperty(@, c.property, c.oldValue)]

RECURSIVE CmdExecute(_, _), ExecuteAll(_, _, _), CmdUndo(_, _), UndoAll(_, _, _)
RECURSIVE getMemorySize(_, _), SumMemory(_, _, _)

\* an undo of the sub-commands in list order
RECURSIVE UndoAllForward(_, _, _)
UndoAllForward(cmds, i, d) ==
  IF i < 1 THEN d ELSE CmdUndo(cmds[i], UndoAllForward(cmds, i - 1, d))

\* Command.execute: the document after it and the command object after it
CmdExecute(c, d) ==
  CASE c.kind = "draw" -> DrawExecute(c, d)
    [] c.kind = "create" -> CreateExecute(c, d)
    [] c.kind = "delete" -> DeleteExecute(c, d)
    [] c.kind = "property" -> PropertyExecute(c, d)
    [] OTHER -> LET r == ExecuteAll(c.commands, 1, d)
                IN [doc |-> r.doc, cmd |-> [c EXCEPT !.commands = r.cmds]]

ExecuteAll(cmds, i, d) ==
  IF i > Len(cmds) THEN [doc |-> d, cmds |-> cmds]
  ELSE LET r == CmdExecute(cmds[i], d)
       IN ExecuteAll([cmds EXCEPT ![i] = r.cmd], i + 1, r.doc)

\* Command.undo
CmdUndo(c, d) ==
  CASE c.kind = "draw" -> DrawUndo(c, d)
    [] c.kind = "create" -> CreateUndo(c, d)
    [] c.kind = "delete" -> DeleteUndo(c, d)
    [] c.kind = "property" -> PropertyUndo(c, d)
    [] OTHER -> UndoAll(c.commands, Len(c.commands), d)

UndoAll(cmds, i, d) ==
  IF i < 1 THEN d ELSE UndoAll(cmds, i - 1, CmdUndo(cmds[i], d))

getMemorySize(c, obj) ==
  CASE c.kind = "draw" -> (Len(c.originalPixels) + Len(c.newPixels)) * DrawBytesPerPixel
    [] c.kind = "create" -> DataLength(obj[c.layerId]) + LayerOverhead
    [] c.kind = "delete" ->
         IF c.hasDeleted THEN DataLength(obj[c.layerId]) + LayerOverhead ELSE SmallCommandSize
    [] c.kind = "property" -> SmallCommandSize
    [] OTHER -> SumMemory(c.commands, 1, obj)

SumMemory(cmds, i, obj) ==
  IF i > Len(cmds) THEN 0 ELSE getMemorySize(cmds[i], obj) + SumMemory(cmds, i + 1, obj)

(***************************************************************************)
(* HistoryManager                                                          *)
(***************************************************************************)
Doc == [layers |-> layers, obj |-> layerObj]

\* Bookkeeping that is not program state (hist): mark is the document right
\* after the last execute, deep the largest redo depth since then (counted
\* up to DeepCap), cleared whether that execute discarded undone commands,
\* evicted how many entries it evicted, applied
\* the ids of the commands in effect, oldest first, executed the id of the
\* command last executed, absent whether the command of the last execute,
\* undo or redo was a draw or property command that did not find its layer.
DeepCap == 2

\* pruneHistory: the stack and the memory counter after the loop
RECURSIVE pruneHistoryUnguarded(_, _, _, _)
pruneHistoryUnguarded(stack, mem, ceiling, obj) ==
  IF mem > ceiling /\ Len(stack) > 0
  THEN pruneHistoryUnguarded(Tail(stack), mem - getMemorySize(Head(stack), obj), ceiling, obj)
  ELSE [stack |-> stack, mem |-> mem]

RECURSIVE pruneHistoryTop(_, _, _, _)
pruneHistoryTop(stack, mem, ceiling, obj) ==
  IF mem > ceiling /\ Len(stack) > 1
  THEN pruneHistoryTop(SubSeq(stack, 1, Len(stack) - 1),
                       mem - getMemorySize(stack[Len(stack)], obj), ceiling, obj)
  ELSE [stack |-> stack, mem |-> mem]

RECURSIVE pruneHistory(_, _, _, _)
pruneHistory(stack, mem, ceiling, obj) ==
  IF mem > ceiling /\ Len(stack) > 1
  THEN pruneHistory(Tail(stack), mem - getMemorySize(Head(stack), obj), ceiling, obj)
  ELSE [stack |-> stack, mem |-> mem]

\* the redo stack HistoryManager.execute leaves behind
ExecuteKeepsRedo(stack) == stack
ExecuteRedoStack(stack) == <<>>

GetState ==
  [canUndo |-> Len(undoStack) > 0, canRedo |-> Len(redoStack) > 0,
   historyLength |-> Len(undoStack), currentIndex |-> Len(undoStack)]

Ids(stack) == [i \in 1..Len(stack) |-> stack[i].id]

\* HistoryManager.execute(command, document)
\* document.layers.find((l) => l.id === this.layerId) of a DrawCommand or a
\* LayerPropertyCommand finds nothing
LayerAbsent(c, d) == c.kind \in {"draw", "property"} /\ FindIndex(d.layers, c.layerId) = -1

HistoryExecuteOn(command, d) ==
  LET r == CmdExecute(command, d)
      mem1 == currentMemory - SumMemory(redoStack, 1, r.doc.obj)
      pushed == Append(undoStack, r.cmd)
      mem2 == mem1 + getMemorySize(r.cmd, r.doc.obj)
      p == pruneHistory(pushed, mem2, maxMemory, r.doc.obj)
  IN /\ layers' = r.doc.layers
     /\ layerObj' = r.doc.obj
     /\ redoStack' = ExecuteRedoStack(redoStack)
     /\ undoStack' = p.stack
     /\ currentMemory' = p.mem
     /\ lastOp' = "execute"
     /\ hist' = [hist EXCEPT !.mark = r.doc, !.deep = 0, !.cleared = Len(redoStack) > 0,
                             !.evicted = Len(pushed) - Len(p.stack),
                             !.applied = Append(@, command.id),
                             !.executed = command.id,
                             !.absent = LayerAbsent(command, d)]
     /\ UNCHANGED <<maxMemory, ret>>

HistoryExecute(command) == HistoryExecuteOn(command, Doc)

\* an undo that, on an empty undo stack, reports success and drops the redo
\* stack
HistoryUndoEmptyDrops ==
  /\ IF Len(undoStack) = 0
     THEN /\ ret' = TRUE
          /\ redoStack' = <<>>
          /\ hist' = [hist EXCEPT !.absent = FALSE]
          /\ UNCHANGED <<layers, layerObj, undoStack>>
     ELSE LET command == undoStack[Len(undoStack)]
              d == CmdUndo(command, Doc)
          IN /\ layers' = d.layers
             /\ layerObj' = d.obj
             /\ undoStack' = SubSeq(undoStack, 1, Len(undoStack) - 1)
             /\ redoStack' = Append(redoStack, command)
             /\ ret' = TRUE
             /\ hist' = [hist EXCEPT !.deep = Min(DeepCap, Max(@, Len(redoStack) + 1)),
                                     !.applied = SubSeq(@, 1, Len(@) - 1),
                                     !.absent = LayerAbsent(command, Doc)]
  /\ lastOp' = "undo"
  /\ UNCHANGED <<currentMemory, maxMemory>>

\* HistoryManager.undo(document): the return value is kept in ret
HistoryUndo ==
  /\ IF Len(undoStack) = 0
     THEN /\ ret' = FALSE
          /\ hist' = [hist EXCEPT !.absent = FALSE]
          /\ UNCHANGED <<layers, layerObj, undoStack, redoStack>>
     ELSE LET command == undoStack[Len(undoStack)]
              d == CmdUndo(command, Doc)
          IN /\ layers' = d.layers
             /\ layerObj' = d.obj
             /\ undoStack' = SubSeq(undoStack, 1, Len(undoStack) - 1)
             /\ redoStack' = Append(redoStack, command)
             /\ ret' = TRUE
             /\ hist' = [hist EXCEPT !.deep = Min(DeepCap, Max(@, Len(redoStack) + 1)),
                                     !.applied = SubSeq(@, 1, Len(@) - 1),
                                     !.absent = LayerAbsent(command, Doc)]
  /\ lastOp' = "undo"
  /\ UNCHANGED <<currentMemory, maxMemory>>

\* HistoryManager.redo(document)
HistoryRedo ==
  /\ IF Len(redoStack) = 0
     THEN /\ ret' = FALSE
          /\ hist' = [hist EXCEPT !.absent = FALSE]
          /\ UNCHANGED <<layers, layerObj, undoStack, redoStack>>
     ELSE LET r == CmdExecute(redoStack[Len(redoStack)], Doc)
          IN /\ layers' = r.doc.layers
             /\ layerObj' = r.doc.obj
             /\ redoStack' = SubSeq(redoStack, 1, Len(redoStack) - 1)
             /\ undoStack' = Append(undoStack, r.cmd)
             /\ ret' = TRUE
             /\ hist' = [hist EXCEPT !.applied = Append(@, r.cmd.id),
                                     !.absent = LayerAbsent(r.cmd, Doc)]
  /\ lastOp' = "redo"
  /\ UNCHANGED <<currentMemory, maxMemory>>


(***************************************************************************)
(* Geometry (points are <<x, y>>)                                          *)
(***************************************************************************)
\* The while (true) loop of bresenhamLine, one iteration at a time, on
\* q = [x1, y1, dx, dy, sx, sy, err, x, y, points, done].
\* An iteration that tests for the end point before it pushes
BresenhamIterationBreaksFirst(q) ==
  IF q.x = q.x1 /\ q.y = q.y1 THEN [q EXCEPT !.done = TRUE]
  ELSE LET e2 == 2 * q.err
           stepX == e2 > -q.dy
           stepY == e2 < q.dx
           err1 == IF stepX THEN q.err - q.dy ELSE q.err
       IN [q EXCEPT !.points = Append(@, <<q.x, q.y>>),
                    !.err = IF stepY THEN err1 + q.dx ELSE err1,
                    !.x = IF stepX THEN @ + q.sx ELSE @,
                    !.y = IF stepY THEN @ + q.sy ELSE @]

BresenhamIteration(q) ==
  LET points == Append(q.points, <<q.x, q.y>>)
  IN IF q.x = q.x1 /\ q.y = q.y1 THEN [q EXCEPT !.points = points, !.done = TRUE]
     ELSE LET e2 == 2 * q.err
              stepX == e2 > -q.dy
              stepY == e2 < q.dx
              err1 == IF stepX THEN q.err - q.dy ELSE q.err
          IN [q EXCEPT !.points = points,
                       !.err = IF stepY THEN err1 + q.dx ELSE err1,
                       !.x = IF stepX THEN @ + q.sx ELSE @,
                       !.y = IF stepY THEN @ + q.sy ELSE @]

\* bresenhamLine up to its loop
BresenhamEntry(x0, y0, x1, y1) ==
  [x0 |-> x0, y0 |-> y0, x1 |-> x1, y1 |-> y1,
   dx |-> Abs(x1 - x0), dy |-> Abs(y1 - y0),
   sx |-> IF x0 < x1 THEN 1 ELSE -1, sy |-> IF y0 < y1 THEN 1 ELSE -1,
   err |-> Abs(x1 - x0) - Abs(y1 - y0), x |-> x0, y |-> y0, points |-> <<>>,
   done |-> FALSE]

\* the loop as a whole, from (x, y) with the error term err
RECURSIVE BresenhamLoop(_, _, _, _, _, _, _, _, _)
BresenhamLoop(x, y, err, x1, y1, dx, dy, sx, sy) ==
  IF x = x1 /\ y = y1 THEN << <<x, y>> >>
  ELSE LET e2 == 2 * err
           stepX == e2 > -dy
           stepY == e2 < dx
           err1 == IF stepX THEN err - dy ELSE err
           err2 == IF stepY THEN err1 + dx ELSE err1
       IN << <<x, y>> >> \o
          BresenhamLoop(IF stepX THEN x + sx ELSE x, IF stepY THEN y + sy ELSE y,
                        err2, x1, y1, dx, dy, sx, sy)

bresenhamLine(x0, y0, x1, y1) ==
  LET dx == Abs(x1 - x0)
      dy == Abs(y1 - y0)
  IN BresenhamLoop(x0, y0, dx - dy, x1, y1, dx, dy,
                   IF x0 < x1 THEN 1 ELSE -1, IF y0 < y1 THEN 1 ELSE -1)

\* rows y = -radius..radius, in each row x = -radius..radius
filledCirclePoints(cx, cy, radius) ==
  LET side == 2 * radius + 1
      cell(k) == <<((k - 1) % side) - radius, ((k - 1) \div side) - radius>>
      inside(k) == cell(k)[1] * cell(k)[1] + cell(k)[2] * cell(k)[2] <= radius * radius
      kept == SelectSeq([k \in 1..(side * side) |-> k], inside)
  IN [i \in 1..Len(kept) |-> <<cx + cell(kept[i])[1], cy + cell(kept[i])[2]>>]

getBrushPoints(center, size) ==
  IF size <= 1 THEN <<center>>
  ELSE filledCirclePoints(center[1], center[2], size \div 2)

\* a mirror about the canvas size instead of its last row and column
applySymmetryAboutSize(point, mode, canvasWidth, canvasHeight) ==
  LET h == <<canvasWidth - point[1], point[2]>>
      v == <<point[1], canvasHeight - point[2]>>
      b == <<canvasWidth - point[1], canvasHeight - point[2]>>
  IN <<point>>
     \o (IF mode \in {"horizontal", "both"} THEN <<h>> ELSE <<>>)
     \o (IF mode \in {"vertical", "both"} THEN <<v>> ELSE <<>>)
     \o (IF mode = "both" THEN <<b>> ELSE <<>>)

applySymmetry(point, mode, canvasWidth, canvasHeight) ==
  LET h == <<canvasWidth - 1 - point[1], point[2]>>
      v == <<point[1], canvasHeight - 1 - point[2]>>
      b == <<canvasWidth - 1 - point[1], canvasHeight - 1 - point[2]>>
  IN <<point>>
     \o (IF mode \in {"horizontal", "both"} THEN <<h>> ELSE <<>>)
     \o (IF mode \in {"vertical", "both"} THEN <<v>> ELSE <<>>)
     \o (IF mode = "both" THEN <<b>> ELSE <<>>)

(***************************************************************************)
(* Colour arithmetic.  An opacity is the fraction <<p, q>>; the quotients  *)
(* of the source are computed exactly before Math.round.  NaNColor is the  *)
(* colour read from outside a buffer (undefined channels).                 *)
(***************************************************************************)
NaNColor == <<-1, -1, -1, -1>>
IsNaN(color) == \E i \in 1..4 : color[i] < 0

\* the base weighed by its whole alpha, whatever covers it
blendColorsUncovered(base, overlay, opacity) ==
  IF IsNaN(base) THEN NaNColor
  ELSE LET A == overlay[4] * opacity[1]
           Q == 255 * opacity[2]
           D == 255 * A + base[4] * Q
           ch(i) == RoundDiv(255 * overlay[i] * A + base[i] * base[4] * Q, D)
       IN IF D = 0 THEN Transparent
          ELSE <<ch(1), ch(2), ch(3), Min(255, RoundDiv(D, Q))>>

blendColors(base, overlay, opacity) ==
  IF IsNaN(base) THEN NaNColor
  ELSE LET A == overlay[4] * opacity[1]
           Q == 255 * opacity[2]
           D == 255 * A + base[4] * (Q - A)
           ch(i) == RoundDiv(255 * overlay[i] * A + base[i] * base[4] * (Q - A), D)
       IN IF D = 0 THEN Transparent
          ELSE <<ch(1), ch(2), ch(3), RoundDiv(D, Q)>>

eraseColor(base, strength) ==
  IF IsNaN(base) THEN NaNColor
  ELSE LET newAlpha == Max(0, base[4] - RoundDiv(255 * strength[1], strength[2]))
       IN IF newAlpha = 0 THEN Transparent
          ELSE <<base[1], base[2], base[3], newAlpha>>

colorsEqual(a, b, tolerance) ==
  /\ ~IsNaN(a) /\ ~IsNaN(b)
  /\ \A i \in 1..4 : Abs(a[i] - b[i]) <= tolerance


\* a clear that leaves the memory counter as it is
HistoryClearKeepsCounter ==
  /\ undoStack' = <<>>
  /\ redoStack' = <<>>
  /\ lastOp' = "clear"
  /\ hist' = [hist EXCEPT !.applied = <<>>, !.absent = FALSE]
  /\ UNCHANGED <<currentMemory, maxMemory, ret>>

\* HistoryManager.clear()
HistoryClear ==
  /\ undoStack' = <<>>
  /\ redoStack' = <<>>
  /\ currentMemory' = 0
  /\ lastOp' = "clear"
  /\ hist' = [hist EXCEPT !.applied = <<>>, !.absent = FALSE]
  /\ UNCHANGED <<maxMemory, ret>>

(***************************************************************************)
(* BaseTool.  A tool instance is the record                                *)
(*   [isActive, startPoint, currentPoint, lastPoint, originalPixels,       *)
(*    changedPixels, previewPixels, previewColor, selectionBounds]         *)
(* (a missing point is <<>>; the two Maps are kept as their values in      *)
(* insertion order; previewColor is LineTool's private field and           *)
(* selectionBounds SelectionTool's, <<>> for null).  The painting helpers  *)
(* work on                                                                 *)
(*   e = [tool, layer, fault]                                              *)
(* where layer is context.imageData's layer and fault records that an      *)
(* index outside its buffer was used.                                      *)
(***************************************************************************)
createToolState(previewColor) ==
  [isActive |-> FALSE, startPoint |-> <<>>, currentPoint |-> <<>>, lastPoint |-> <<>>,
   originalPixels |-> <<>>, changedPixels |-> <<>>, previewPixels |-> <<>>,
   previewColor |-> previewColor, selectionBounds |-> <<>>]

\* reset(): a new state; the tool's private fields stay
reset(t) == [createToolState(t.previewColor) EXCEPT !.selectionBounds = t.selectionBounds]

usesBrushSize(id) == id \in {"pencil", "eraser", "noise", "line"}
usesSymmetry(id) == id \in {"pencil", "eraser", "noise", "line"}

\* Map.has(pixelKey(x, y)) / Map.set(pixelKey(x, y), pixel)
MapHas(m, x, y) == \E i \in 1..Len(m) : m[i].x = x /\ m[i].y = y
MapSet(m, pixel) ==
  IF MapHas(m, pixel.x, pixel.y)
  THEN LET i == CHOOSE j \in 1..Len(m) : m[j].x = pixel.x /\ m[j].y = pixel.y
       IN SubSeq(m, 1, i - 1) \o <<pixel>> \o SubSeq(m, i + 1, Len(m))
  ELSE Append(m, pixel)

RECURSIVE FlatMapSymmetry(_, _, _)
FlatMapSymmetry(points, i, ctx) ==
  IF i > Len(points) THEN <<>>
  ELSE applySymmetry(points[i], ctx.symmetryMode, ctx.width, ctx.height)
       \o FlatMapSymmetry(points, i + 1, ctx)

getBrushPointsWithSymmetry(id, point, ctx) ==
  LET brushPoints == IF usesBrushSize(id) THEN getBrushPoints(point, ctx.brushSize)
                     ELSE <<point>>
  IN IF ~usesSymmetry(id) \/ ctx.symmetryMode = "none" THEN brushPoints
     ELSE FlatMapSymmetry(brushPoints, 1, ctx)

filterByBounds(points, ctx) ==
  LET inside(p) == isInBounds(p[1], p[2], ctx.width, ctx.height)
  IN SelectSeq(points, inside)

filterPointsByPaintTarget(points, paintTarget) ==
  LET valid(p) == isValidForPaintTarget(p[1], p[2], paintTarget)
  IN SelectSeq(points, valid)

getValidPoints(id, point, ctx) ==
  filterPointsByPaintTarget(
    filterByBounds(getBrushPointsWithSymmetry(id, point, ctx), ctx), ctx.paintTarget)

\* imageData.data[(y * imageData.width + x) * 4 ..]
getPixel(x, y, layer) ==
  IF IndexInBuffer(layer, PixelIndex(x, y)) THEN ReadIndex(layer, PixelIndex(x, y))
  ELSE NaNColor

setPixel(x, y, color, layer) == WriteIndex(layer, PixelIndex(x, y), color)

\* a body that records a coordinate's changed colour on first touch only
TouchKeepsFirst(e, point, newColor) ==
  LET x == point[1]
      y == point[2]
      existing == getPixel(x, y, e.layer)
  IN [tool |-> [e.tool EXCEPT
                  !.originalPixels =
                     IF MapHas(@, x, y) THEN @ ELSE Append(@, Pixel(x, y, existing)),
                  !.changedPixels =
                     IF MapHas(@, x, y) THEN @ ELSE Append(@, Pixel(x, y, newColor))],
      layer |-> setPixel(x, y, newColor, e.layer),
      fault |-> e.fault \/ ~IndexInBuffer(e.layer, PixelIndex(x, y))]

\* the body shared by paintAt and eraseAt, newColor being the blended or
\* erased colour
Touch(e, point, newColor) ==
  LET x == point[1]
      y == point[2]
      existing == getPixel(x, y, e.layer)
  IN [tool |-> [e.tool EXCEPT
                  !.originalPixels =
                     IF MapHas(@, x, y) THEN @ ELSE Append(@, Pixel(x, y, existing)),
                  !.changedPixels = MapSet(@, Pixel(x, y, newColor))],
      layer |-> setPixel(x, y, newColor, e.layer),
      fault |-> e.fault \/ ~IndexInBuffer(e.layer, PixelIndex(x, y))]

paintAtRetracks(e, point, color, ctx) ==
  LET x == point[1]
      y == point[2]
      existing == getPixel(x, y, e.layer)
      newColor == blendColors(existing, color, ctx.brushOpacity)
  IN [tool |-> [e.tool EXCEPT
                  !.originalPixels = MapSet(@, Pixel(x, y, existing)),
                  !.changedPixels = MapSet(@, Pixel(x, y, newColor))],
      layer |-> setPixel(x, y, newColor, e.layer),
      fault |-> e.fault \/ ~IndexInBuffer(e.layer, PixelIndex(x, y))]

paintAt(e, point, color, ctx) ==
  Touch(e, point,
        blendColors(getPixel(point[1], point[2], e.layer), color, ctx.brushOpacity))

eraseAt(e, point, ctx) ==
  Touch(e, point, eraseColor(getPixel(point[1], point[2], e.layer), ctx.brushOpacity))

startStroke(e, point) ==
  [e EXCEPT !.tool.isActive = TRUE, !.tool.startPoint = point,
            !.tool.currentPoint = point, !.tool.changedPixels = <<>>,
            !.tool.originalPixels = <<>>, !.tool.lastPoint = point]

endStroke(e) == [e EXCEPT !.tool.isActive = FALSE, !.tool.lastPoint = <<>>]


(***************************************************************************)
(* The tools                                                               *)
(***************************************************************************)
Chosen(ctx, useSecondary) ==
  IF useSecondary THEN ctx.secondaryColor ELSE ctx.primaryColor

\* The for loops below run over items lo..hi of a list, in order; a range
\* is halved, and the first half is evaluated before the second starts, so
\* that long lists are evaluated without deep nesting.
Mid(lo, hi) == (lo + hi) \div 2

\* PencilTool.drawAtPoint
RECURSIVE PaintEach(_, _, _, _, _, _)
PaintEach(e, points, lo, hi, color, ctx) ==
  IF lo > hi THEN e
  ELSE IF lo = hi THEN paintAt(e, points[lo], color, ctx)
  ELSE CHOOSE r \in {PaintEach(left, points, Mid(lo, hi) + 1, hi, color, ctx) :
                     left \in {PaintEach(e, points, lo, Mid(lo, hi), color, ctx)}} : TRUE

drawAtPoint(id, e, point, color, ctx) ==
  LET validPoints == getValidPoints(id, point, ctx)
  IN PaintEach(e, validPoints, 1, Len(validPoints), color, ctx)

\* EraserTool.eraseAtPoint
RECURSIVE EraseEach(_, _, _, _, _)
EraseEach(e, points, lo, hi, ctx) ==
  IF lo > hi THEN e
  ELSE IF lo = hi THEN eraseAt(e, points[lo], ctx)
  ELSE CHOOSE r \in {EraseEach(left, points, Mid(lo, hi) + 1, hi, ctx) :
                     left \in {EraseEach(e, points, lo, Mid(lo, hi), ctx)}} : TRUE

eraseAtPoint(e, point, ctx) ==
  LET validPoints == getValidPoints("eraser", point, ctx)
  IN EraseEach(e, validPoints, 1, Len(validPoints), ctx)

\* NoiseTool: Math.random() is a draw from the offsets that
\* Math.round((r - 0.5) * 2 * 255 * noiseStrength) can give (-76..76);
\* a seed fixes the draws of one event
NoiseOffsets == <<-76, 76, 0, 31, -12>>
randomOffset(seed, n) == NoiseOffsets[((seed + n) % Len(NoiseOffsets)) + 1]
clampColor(value) == Max(0, Min(255, value))
addNoise(color, seed, n) ==
  <<clampColor(color[1] + randomOffset(seed, 3 * n)),
    clampColor(color[2] + randomOffset(seed, 3 * n + 1)),
    clampColor(color[3] + randomOffset(seed, 3 * n + 2)),
    color[4]>>

RECURSIVE NoiseEach(_, _, _, _, _, _, _)
NoiseEach(e, points, lo, hi, baseColor, ctx, seed) ==
  IF lo > hi THEN e
  ELSE IF lo = hi THEN paintAt(e, points[lo], addNoise(baseColor, seed, lo), ctx)
  ELSE CHOOSE r \in {NoiseEach(left, points, Mid(lo, hi) + 1, hi, baseColor, ctx, seed) :
                     left \in {NoiseEach(e, points, lo, Mid(lo, hi), baseColor, ctx,
                                         seed)}} : TRUE

drawNoiseAtPoint(e, point, baseColor, ctx, seed) ==
  LET validPoints == getValidPoints("noise", point, ctx)
  IN NoiseEach(e, validPoints, 1, Len(validPoints), baseColor, ctx, seed)

\* what pencil, eraser and noise do at one point of a stroke
StampAt(id, e, point, color, ctx, seed) ==
  CASE id = "eraser" -> eraseAtPoint(e, point, ctx)
    [] id = "noise" -> drawNoiseAtPoint(e, point, color, ctx, seed)
    [] OTHER -> drawAtPoint(id, e, point, color, ctx)

\* for (const p of interpolated) ...
RECURSIVE StampAlong(_, _, _, _, _, _, _, _)
StampAlong(id, e, linePoints, lo, hi, color, ctx, seed) ==
  IF lo > hi THEN e
  ELSE IF lo = hi THEN StampAt(id, e, linePoints[lo], color, ctx, seed + lo)
  ELSE CHOOSE r \in {StampAlong(id, left, linePoints, Mid(lo, hi) + 1, hi, color, ctx,
                                seed) :
                     left \in {StampAlong(id, e, linePoints, lo, Mid(lo, hi), color, ctx,
                                          seed)}} : TRUE

\* an interpolation that returns the two end points only
interpolatePointsEnds(from, to) == <<from, to>>

interpolatePoints(from, to) == bresenhamLine(from[1], from[2], to[1], to[2])

\* PencilTool / EraserTool / NoiseTool
BrushOnStart(id, e, point, ctx, useSecondary, seed) ==
  StampAt(id, startStroke(e, point), point, Chosen(ctx, useSecondary), ctx, seed)

BrushOnMove(id, e, point, ctx, useSecondary, seed) ==
  IF ~e.tool.isActive THEN e
  ELSE LET color == Chosen(ctx, useSecondary)
           interpolated == interpolatePoints(e.tool.lastPoint, point)
           drawn == IF e.tool.lastPoint # <<>>
                    THEN StampAlong(id, e, interpolated, 1, Len(interpolated),
                                    color, ctx, seed)
                    ELSE StampAt(id, e, point, color, ctx, seed)
       IN [drawn EXCEPT !.tool.lastPoint = point, !.tool.currentPoint = point]

BrushOnEnd(e) == endStroke(e)

\* LineTool
RECURSIVE LinePreviewPixels(_, _, _, _)
LinePreviewPixels(linePoints, i, color, ctx) ==
  IF i > Len(linePoints) THEN <<>>
  ELSE LET brushPoints ==
             filterPointsByPaintTarget(
               filterByBounds(getBrushPointsWithSymmetry("line", linePoints[i], ctx), ctx),
               ctx.paintTarget)
       IN [k \in 1..Len(brushPoints) |-> Pixel(brushPoints[k][1], brushPoints[k][2], color)]
          \o LinePreviewPixels(linePoints, i + 1, color, ctx)

LineUpdatePreview(e, from, to, ctx) ==
  [e EXCEPT !.tool.previewPixels =
     LinePreviewPixels(bresenhamLine(from[1], from[2], to[1], to[2]), 1,
                       e.tool.previewColor, ctx)]

RECURSIVE DrawLineEach(_, _, _, _, _)
DrawLineEach(e, linePoints, lo, hi, ctx) ==
  IF lo > hi THEN e
  ELSE IF lo = hi THEN drawAtPoint("line", e, linePoints[lo], e.tool.previewColor, ctx)
  ELSE CHOOSE r \in {DrawLineEach(left, linePoints, Mid(lo, hi) + 1, hi, ctx) :
                     left \in {DrawLineEach(e, linePoints, lo, Mid(lo, hi), ctx)}} : TRUE

drawLine(e, from, to, ctx) ==
  LET linePoints == bresenhamLine(from[1], from[2], to[1], to[2])
  IN DrawLineEach(e, linePoints, 1, Len(linePoints), ctx)

LineOnStart(e, point, ctx, useSecondary) ==
  LineUpdatePreview(
    [startStroke(e, point) EXCEPT !.tool.previewColor = Chosen(ctx, useSecondary)],
    point, point, ctx)

\* an onMove that draws the line it previews
LineOnMoveDraws(e, point, ctx) ==
  IF ~e.tool.isActive \/ e.tool.startPoint = <<>> THEN e
  ELSE LineUpdatePreview([drawLine(e, e.tool.startPoint, point, ctx)
                            EXCEPT !.tool.currentPoint = point],
                         e.tool.startPoint, point, ctx)

LineOnMove(e, point, ctx) ==
  IF ~e.tool.isActive \/ e.tool.startPoint = <<>> THEN e
  ELSE LineUpdatePreview([e EXCEPT !.tool.currentPoint = point],
                         e.tool.startPoint, point, ctx)

LineOnEnd(e, point, ctx) ==
  IF ~e.tool.isActive \/ e.tool.startPoint = <<>> THEN endStroke(e)
  ELSE endStroke([drawLine(e, e.tool.startPoint, point, ctx)
                    EXCEPT !.tool.previewPixels = <<>>])


\* GradientTool.  t = (px * dx + py * dy) / totalDistance^2 is kept as the
\* fraction tn / d2 with d2 = dx^2 + dy^2, so totalDistance < 1 is d2 < 1.
gradientColors(from, to, steps) ==
  [i \in 1..steps |->
     [c \in 1..4 |-> RoundDiv(from[c] * (steps - 1) + (to[c] - from[c]) * (i - 1),
                              steps - 1)]]

calculateGradientPixels(from, to, ctx) ==
  LET linePoints == bresenhamLine(from[1], from[2], to[1], to[2])
      colors == gradientColors(ctx.primaryColor, ctx.secondaryColor, Len(linePoints))
      shown(i) == /\ isInBounds(linePoints[i][1], linePoints[i][2], ctx.width, ctx.height)
                  /\ isValidForPaintTarget(linePoints[i][1], linePoints[i][2],
                                           ctx.paintTarget)
      kept == SelectSeq([i \in 1..Len(linePoints) |-> i], shown)
  IN IF Len(linePoints) < 2 THEN <<Pixel(from[1], from[2], ctx.primaryColor)>>
     ELSE [k \in 1..Len(kept) |->
             Pixel(linePoints[kept[k]][1], linePoints[kept[k]][2], colors[kept[k]])]

GradientUpdatePreview(e, from, to, ctx) ==
  [e EXCEPT !.tool.previewPixels = calculateGradientPixels(from, to, ctx)]

\* the body of the loops over the bounding box, at one cell
GradientAt(e, cell, from, dx, dy, ctx) ==
  LET x == cell[1]
      y == cell[2]
      d2 == dx * dx + dy * dy
      tn == Max(0, Min(d2, (x - from[1]) * dx + (y - from[2]) * dy))
      color == [c \in 1..4 |->
                  RoundDiv(ctx.primaryColor[c] * d2
                           + (ctx.secondaryColor[c] - ctx.primaryColor[c]) * tn, d2)]
  IN IF ~isInBounds(x, y, ctx.width, ctx.height)
        \/ ~isValidForPaintTarget(x, y, ctx.paintTarget)
     THEN e
     ELSE paintAt(e, cell, color, ctx)

RECURSIVE GradientEach(_, _, _, _, _, _, _, _)
GradientEach(e, cells, lo, hi, from, dx, dy, ctx) ==
  IF lo > hi THEN e
  ELSE IF lo = hi THEN GradientAt(e, cells[lo], from, dx, dy, ctx)
  ELSE CHOOSE r \in {GradientEach(left, cells, Mid(lo, hi) + 1, hi, from, dx, dy, ctx) :
                     left \in {GradientEach(e, cells, lo, Mid(lo, hi), from, dx, dy, ctx)}} : TRUE

drawGradient(e, from, to, ctx) ==
  LET dx == to[1] - from[1]
      dy == to[2] - from[2]
      minX == Min(from[1], to[1])
      minY == Min(from[2], to[2])
      cols == Max(from[1], to[1]) - minX + 1
      rows == Max(from[2], to[2]) - minY + 1
      cells == [k \in 1..(cols * rows) |->
                  <<minX + ((k - 1) % cols), minY + ((k - 1) \div cols)>>]
  IN IF dx * dx + dy * dy < 1
     THEN (IF /\ isInBounds(from[1], from[2], ctx.width, ctx.height)
              /\ isValidForPaintTarget(from[1], from[2], ctx.paintTarget)
           THEN paintAt(e, from, ctx.primaryColor, ctx)
           ELSE e)
     ELSE GradientEach(e, cells, 1, Len(cells), from, dx, dy, ctx)

GradientOnStart(e, point, ctx) ==
  GradientUpdatePreview(startStroke(e, point), point, point, ctx)

GradientOnMove(e, point, ctx) ==
  IF ~e.tool.isActive \/ e.tool.startPoint = <<>> THEN e
  ELSE GradientUpdatePreview([e EXCEPT !.tool.currentPoint = point],
                             e.tool.startPoint, point, ctx)

GradientOnEnd(e, point, ctx) ==
  IF ~e.tool.isActive \/ e.tool.startPoint = <<>> THEN endStroke(e)
  ELSE endStroke([drawGradient(e, e.tool.startPoint, point, ctx)
                    EXCEPT !.tool.previewPixels = <<>>])

\* FillTool
TOLERANCE == 10

\* a getPixel made by the fill itself
Probe(e, point) ==
  [e EXCEPT !.fault = @ \/ ~IndexInBuffer(e.layer, PixelIndex(point[1], point[2]))]

\* an iteration that does not push the neighbour above
FloodStepNoUp(st, targetColor, fillColor, ctx) ==
  LET point == st.stack[Len(st.stack)]
      rest == SubSeq(st.stack, 1, Len(st.stack) - 1)
      x == point[1]
      y == point[2]
  IN IF \/ point \in st.visited
        \/ ~isInBounds(x, y, ctx.width, ctx.height)
        \/ ~isValidForPaintTarget(x, y, ctx.paintTarget)
     THEN [st EXCEPT !.stack = rest]
     ELSE IF ~colorsEqual(getPixel(x, y, st.e.layer), targetColor, TOLERANCE)
     THEN [st EXCEPT !.stack = rest, !.e = Probe(@, point)]
     ELSE [e |-> paintAt(st.e, point, fillColor, ctx),
           stack |-> rest \o << <<x + 1, y>>, <<x - 1, y>>, <<x, y + 1>> >>,
           visited |-> {v : v \in st.visited \cup {point}}]

\* one iteration of the while (stack.length > 0) loop of floodFill, on
\* st = [e, stack, visited]
FloodStep(st, targetColor, fillColor, ctx) ==
  LET point == st.stack[Len(st.stack)]
      rest == SubSeq(st.stack, 1, Len(st.stack) - 1)
      x == point[1]
      y == point[2]
  IN IF \/ point \in st.visited
        \/ ~isInBounds(x, y, ctx.width, ctx.height)
        \/ ~isValidForPaintTarget(x, y, ctx.paintTarget)
     THEN [st EXCEPT !.stack = rest]
     ELSE IF ~colorsEqual(getPixel(x, y, st.e.layer), targetColor, TOLERANCE)
     THEN [st EXCEPT !.stack = rest, !.e = Probe(@, point)]
     ELSE [e |-> paintAt(st.e, point, fillColor, ctx),
           stack |-> rest \o << <<x + 1, y>>, <<x - 1, y>>, <<x, y + 1>>, <<x, y - 1>> >>,
           visited |-> {v : v \in st.visited \cup {point}}]

\* the loop, run for at most n iterations; the first half of them is
\* evaluated before the second starts
RECURSIVE FloodRun(_, _, _, _, _)
FloodRun(st, n, targetColor, fillColor, ctx) ==
  IF st.stack = <<>> THEN st
  ELSE IF n = 1 THEN FloodStep(st, targetColor, fillColor, ctx)
  ELSE CHOOSE r \in {FloodRun(left, n - (n \div 2), targetColor, fillColor, ctx) :
                     left \in {FloodRun(st, n \div 2, targetColor, fillColor, ctx)}} : TRUE

\* the while loop: a pixel is painted at most once and pushes four points,
\* so the loop ends within 1 + 4 * width * height iterations
FloodLoop(e, stack, visited, targetColor, fillColor, ctx) ==
  FloodRun([e |-> e, stack |-> stack, visited |-> visited],
           1 + 4 * ctx.width * ctx.height, targetColor, fillColor, ctx).e

floodFill(e, startPoint, fillColor, ctx) ==
  IF \/ ~isInBounds(startPoint[1], startPoint[2], ctx.width, ctx.height)
     \/ ~isValidForPaintTarget(startPoint[1], startPoint[2], ctx.paintTarget)
  THEN e
  ELSE LET targetColor == getPixel(startPoint[1], startPoint[2], e.layer)
       IN IF colorsEqual(targetColor, fillColor, 0) THEN Probe(e, startPoint)
          ELSE FloodLoop(Probe(e, startPoint), <<startPoint>>, {}, targetColor,
                         fillColor, ctx)

FillOnStart(e, point, ctx, useSecondary) ==
  endStroke(floodFill(startStroke(e, point), point, Chosen(ctx, useSecondary), ctx))

\* ColorReplacementTool
isValidPixel(x, y) == isBasePixel(x, y) \/ isOverlayPixel(x, y)

\* the scan for (y < height) for (x < width): the valid pixels whose colour
\* matches sourceColor, in scan order
matchingPixels(layer, sourceColor, ctx) ==
  LET scanned == [i \in 1..(ctx.width * ctx.height) |->
                    <<(i - 1) % ctx.width, (i - 1) \div ctx.width>>]
      matches(q) == /\ isValidPixel(q[1], q[2])
                    /\ colorsEqual(getPixel(q[1], q[2], layer), sourceColor, TOLERANCE)
  IN SelectSeq(scanned, matches)

\* the getPixel calls of the scan that fall outside the layer's buffer
ScanFaults(layer, ctx) ==
  \E x \in 0..(ctx.width - 1), y \in 0..(ctx.height - 1) :
     isValidPixel(x, y) /\ ~IndexInBuffer(layer, PixelIndex(x, y))

\* a replaceColor that keeps to the context's paint target
replaceColorOnTarget(e, startPoint, targetColor, ctx) ==
  IF \/ ~isInBounds(startPoint[1], startPoint[2], ctx.width, ctx.height)
     \/ ~isValidPixel(startPoint[1], startPoint[2])
  THEN e
  ELSE LET sourceColor == getPixel(startPoint[1], startPoint[2], e.layer)
           probed == Probe(e, startPoint)
       IN IF colorsEqual(sourceColor, targetColor, 0) \/ sourceColor[4] = 0 THEN probed
          ELSE LET pixels == filterPointsByPaintTarget(
                               matchingPixels(e.layer, sourceColor, ctx), ctx.paintTarget)
               IN PaintEach([probed EXCEPT !.fault = @ \/ ScanFaults(e.layer, ctx)],
                            pixels, 1, Len(pixels), targetColor, ctx)

replaceColor(e, startPoint, targetColor, ctx) ==
  IF \/ ~isInBounds(startPoint[1], startPoint[2], ctx.width, ctx.height)
     \/ ~isValidPixel(startPoint[1], startPoint[2])
  THEN e
  ELSE LET sourceColor == getPixel(startPoint[1], startPoint[2], e.layer)
           probed == Probe(e, startPoint)
       IN IF colorsEqual(sourceColor, targetColor, 0) \/ sourceColor[4] = 0 THEN probed
          ELSE LET pixels == matchingPixels(e.layer, sourceColor, ctx)
               IN PaintEach([probed EXCEPT !.fault = @ \/ ScanFaults(e.layer, ctx)],
                            pixels, 1, Len(pixels), targetColor, ctx)

ColorReplacementOnStart(e, point, ctx, useSecondary) ==
  endStroke(replaceColor(startStroke(e, point), point, Chosen(ctx, useSecondary), ctx))

\* SelectionTool (the outline it returns as the result's previewPixels is
\* not kept in the tool's state)
\* the extent as the difference of the corners
calculateBoundsExclusive(start, end) ==
  [x |-> Min(start[1], end[1]), y |-> Min(start[2], end[2]),
   width |-> Abs(end[1] - start[1]), height |-> Abs(end[2] - start[2])]

calculateBounds(start, end) ==
  [x |-> Min(start[1], end[1]), y |-> Min(start[2], end[2]),
   width |-> Abs(end[1] - start[1]) + 1, height |-> Abs(end[2] - start[2]) + 1]

SelectionOnStart(e, point) ==
  [startStroke(e, point) EXCEPT
     !.tool.selectionBounds = [x |-> point[1], y |-> point[2], width |-> 0, height |-> 0]]

SelectionOnMove(e, point) ==
  IF ~e.tool.isActive \/ e.tool.startPoint = <<>> THEN e
  ELSE [e EXCEPT !.tool.currentPoint = point,
                 !.tool.selectionBounds = calculateBounds(e.tool.startPoint, point)]

SelectionOnEnd(e, point) ==
  IF ~e.tool.isActive \/ e.tool.startPoint = <<>> THEN endStroke(e)
  ELSE endStroke([e EXCEPT
                    !.tool.selectionBounds = calculateBounds(e.tool.startPoint, point)])

\* the selection of the result SelectionTool.onEnd returns: <<>> for null,
\* else the one Selection
SelectionOnEndSelection(e, point) ==
  IF ~e.tool.isActive \/ e.tool.startPoint = <<>> THEN <<>>
  ELSE LET selectionBounds == calculateBounds(e.tool.startPoint, point)
       IN IF selectionBounds.width > 0 /\ selectionBounds.height > 0
          THEN <<[type |-> "rectangle", bounds |-> selectionBounds]>>
          ELSE <<>>

\* EyedropperTool.sampleColor, imageData being context.compositeImageData
\* || context.imageData
sampleColor(point, ctx, imageData) ==
  IF point[1] < 0 \/ point[1] >= ctx.width \/ point[2] < 0 \/ point[2] >= ctx.height
  THEN Transparent
  ELSE getPixel(point[1], point[2], imageData)

\* EyedropperTool.onStart / onMove / onEnd: the tool's state and the layer
\* are not touched; the colour is the result's pickedColor
EyedropperEvent(e, point, ctx, imageData) ==
  [e EXCEPT !.fault = @ \/ /\ isInBounds(point[1], point[2], ctx.width, ctx.height)
                           /\ ~IndexInBuffer(imageData, PixelIndex(point[1], point[2]))]

\* tool.onStart / onMove / onEnd of the tool registered under id
BrushTools == {"pencil", "eraser", "noise"}

onStart(id, e, point, ctx, useSecondary, seed) ==
  CASE id \in BrushTools -> BrushOnStart(id, e, point, ctx, useSecondary, seed)
    [] id = "line" -> LineOnStart(e, point, ctx, useSecondary)
    [] id = "gradient" -> GradientOnStart(e, point, ctx)
    [] id = "fill" -> FillOnStart(e, point, ctx, useSecondary)
    [] id = "color-replacement" -> ColorReplacementOnStart(e, point, ctx, useSecondary)

onMove(id, e, point, ctx, useSecondary, seed) ==
  CASE id \in BrushTools -> BrushOnMove(id, e, point, ctx, useSecondary, seed)
    [] id = "line" -> LineOnMove(e, point, ctx)
    [] id = "gradient" -> GradientOnMove(e, point, ctx)
    [] id = "fill" -> e
    [] id = "color-replacement" -> e

\* result.isComplete of onEnd: every tool returns createResult(true), or a
\* literal result with isComplete: true, from onEnd
isCompleteOnEnd(id) == TRUE

onEnd(id, e, point, ctx) ==
  CASE id \in BrushTools -> BrushOnEnd(e)
    [] id = "line" -> LineOnEnd(e, point, ctx)
    [] id = "gradient" -> GradientOnEnd(e, point, ctx)
    [] id = "fill" -> e
    [] id = "color-replacement" -> e


(***************************************************************************)
(* Idle values of the components a specification does not exercise         *)
(***************************************************************************)
LayerPool == {"L1", "L2"}
Range(f) == {f[i] : i \in DOMAIN f}

\* sync records, for the last flush, the queue it found and the onSync calls
\* it made on each subscriber, and, when the call just made was an
\* emitImmediate, its event and the onSync calls it made on each subscriber
NoImmediate == [event |-> [type |-> "none"], calls |-> <<>>]
NoFlush == [flushed |-> FALSE, queued |-> <<>>, delivered |-> <<>>,
            immediate |-> NoImmediate]
SyncIdle ==
  /\ subscribers = <<>>
  /\ pendingEvents = <<>>
  /\ rafId = "null"
  /\ sync = NoFlush
\* composite holds the closure's rafId, the number of callbacks the browser
\* has scheduled for the next frame, and bookkeeping: the calls made since
\* the last frame, the calls the last frame found, the updateComposite
\* calls made by frames and the frames so far
CompositeIdle ==
  composite = [rafId |-> "null", scheduled |-> 0, requests |-> 0, served |-> 0,
               updates |-> 0, frames |-> 0]

QueryIdle == query = [x |-> 0, y |-> 0, asked |-> FALSE, base |-> FALSE, overlay |-> FALSE]
\* the store's tool settings and the open document's size and active layer
DefaultSettings ==
  [activeTool |-> "pencil", primaryColor |-> <<0, 0, 0, 255>>,
   secondaryColor |-> <<255, 255, 255, 255>>, brushSize |-> 1, brushOpacity |-> <<1, 1>>,
   symmetryMode |-> "none", paintTarget |-> "base", height |-> ModernHeight,
   activeLayerId |-> "L1"]

\* the hook's activeToolRef, and bookkeeping of the gesture: its phase, the
\* number of moves, the button, the layer before handleStart and after
\* tool.onEnd, whether handleEnd committed a command, whether an index
\* outside the layer's buffer was used, what the last handler returned
\* and which handler that was, and how many times handleStart has invoked a
\* tool
GestureIdle ==
  [activeToolRef |-> FALSE, phase |-> "idle", moves |-> 0, useSecondary |-> FALSE,
   before |-> NewLayer("blank", ModernHeight), after |-> NewLayer("blank", ModernHeight),
   committed |-> FALSE, fault |-> FALSE, returned |-> "none", call |-> "none",
   starts |-> 0]

\* Canvas2DView's isRightClickRef and Viewer3D's isPaintingRef and
\* lastPointRef (<<>> for null), with bookkeeping of the pointer gesture:
\* the view it happens in, whether the button is up, down, released or has
\* left the canvas, and the length of the undo stack at pointer down
\* and the active layer at pointer down
ViewIdle ==
  [kind |-> "none", pointer |-> "up", isRightClickRef |-> FALSE,
   isPaintingRef |-> FALSE, lastPointRef |-> <<>>, undoAtDown |-> 0,
   layerAtDown |-> NewLayer("blank", ModernHeight)]

ToolsIdle ==
  /\ cfg = DefaultSettings
  /\ tool = createToolState(<<0, 0, 0, 255>>)
  /\ gesture = GestureIdle
  /\ view = ViewIdle

HistoryIdle(ceiling, uniform) ==
  /\ undoStack = <<>>
  /\ redoStack = <<>>
  /\ currentMemory = 0
  /\ maxMemory = ceiling
  /\ nextCmdId = 1
  /\ ret = FALSE
  /\ lastOp = "init"
  /\ hist = [mark |-> Doc, deep |-> 0, cleared |-> FALSE, evicted |-> 0,
             applied |-> <<>>, executed |-> 0, uniform |-> uniform, absent |-> FALSE]

\* createSkinDocument: one layer sized to the format
DocumentInit(base, height) ==
  /\ layers = <<"L1">>
  /\ layerObj = [id \in LayerPool |->
                   NewLayer(IF id = "L1" THEN base ELSE "blank", height)]
  /\ usedIds = {"L1"}

(***************************************************************************)
(* SpecHistory: commands executed, undone and redone through the           *)
(* HistoryManager under the default 50MB ceiling                           *)
(***************************************************************************)
MaxExec == 3

P1 == <<10, 10>>
P2 == <<11, 10>>

\* the pixel diff a tool stroke over coords with one colour hands to
\* DrawCommand: the values before the stroke and the values after it
StrokeCommand(id, d, layerId, coords, color) ==
  DrawCommand(id, layerId,
    [i \in 1..Len(coords) |->
       Pixel(coords[i][1], coords[i][2],
             ReadIndex(d.obj[layerId], PixelIndex(coords[i][1], coords[i][2])))],
    [i \in 1..Len(coords) |-> Pixel(coords[i][1], coords[i][2], color)])

\* crypto.randomUUID(): an identity no layer has had
FreshLayer == CHOOSE id \in LayerPool \ usedIds : TRUE

Record(command, created) ==
  /\ nextCmdId <= MaxExec
  /\ HistoryExecute(command)
  /\ nextCmdId' = nextCmdId + 1
  /\ usedIds' = usedIds \cup created
  /\ UNCHANGED <<syncVars, query, composite, toolVars>>

ExecDraw ==
  \E l \in Range(layers), shape \in {<<<<P1>>, Red>>, <<<<P1, P2>>, Blue>>} :
    Record(StrokeCommand(nextCmdId, Doc, l, shape[1], shape[2]), {})

ExecCreate ==
  /\ LayerPool \ usedIds # {}
  /\ \E at \in 0..Len(layers) :
       Record(CreateLayerCommand(nextCmdId, FreshLayer, at), {FreshLayer})

ExecDelete ==
  \E l \in Range(layers) : Record(DeleteLayerCommand(nextCmdId, l), {})

ExecProperty ==
  \E l \in Range(layers), pv \in {<<"visible", FALSE>>, <<"locked", TRUE>>} :
    Record(LayerPropertyCommand(nextCmdId, l, pv[1], pv[2]), {})

ExecComposite ==
  \/ \E l \in Range(layers) :
       LET c1 == StrokeCommand(0, Doc, l, <<P1>>, Red)
           c2 == StrokeCommand(0, CmdExecute(c1, Doc).doc, l, <<P1, P2>>, Blue)
       IN Record(CompositeCommand(nextCmdId, <<c1, c2>>), {})
  \/ /\ LayerPool \ usedIds # {}
     /\ Record(CompositeCommand(nextCmdId,
                 <<CreateLayerCommand(0, FreshLayer, Len(layers)),
                   LayerPropertyCommand(0, FreshLayer, "visible", FALSE)>>),
               {FreshLayer})

Undo == HistoryUndo /\ UNCHANGED <<nextCmdId, usedIds, syncVars, query, composite, toolVars>>
Redo == HistoryRedo /\ UNCHANGED <<nextCmdId, usedIds, syncVars, query, composite, toolVars>>

InitHistory ==
  /\ DocumentInit("skin", ModernHeight)
  /\ HistoryIdle(DefaultMaxMemory, FALSE)
  /\ SyncIdle /\ CompositeIdle /\ QueryIdle /\ ToolsIdle

NextHistory ==
  \/ ExecDraw \/ ExecCreate \/ ExecDelete \/ ExecProperty \/ ExecComposite
  \/ Undo \/ Redo

SpecHistory == InitHistory /\ [][NextHistory]_vars

\* C1: whenever every undone command has been redone (k undos followed by k
\* redos since the last execute), the layer list and every layer's pixels
\* are those the document had immediately after that execute.
UndoRedoInverse ==
  (redoStack = <<>> /\ hist.evicted = 0) => Doc = hist.mark

\* three commands deep, the delete on top and the draw under it were undone
\* and redone
UndoRedoInverseWitness ==
  /\ redoStack = <<>> /\ lastOp = "redo" /\ ret /\ hist.deep >= 2
  /\ Len(undoStack) = 3
  /\ undoStack[3].kind = "delete" /\ undoStack[3].hasDeleted
  /\ undoStack[2].kind = "draw"


\* C2: an execute leaves the redo stack empty (canRedo false), and a redo
\* called right after an execute returns false and changes neither the
\* document nor the stacks.
RedoInvalidation ==
  [][ /\ (lastOp' = "execute" => (redoStack' = <<>> /\ ~(Len(redoStack') > 0)))
      /\ ((lastOp = "execute" /\ lastOp' = "redo") =>
            (/\ ret' = FALSE
             /\ layers' = layers /\ layerObj' = layerObj
             /\ undoStack' = undoStack /\ redoStack' = <<>>)) ]_vars

\* a redo that failed right after an execute which discarded undone commands
RedoInvalidationWitness ==
  /\ lastOp = "redo" /\ ~ret /\ hist.deep = 0 /\ hist.cleared
  /\ Len(undoStack) >= 2

(***************************************************************************)
(* SpecEvict: draw commands under small memory ceilings                    *)
(***************************************************************************)
MaxEvictExec == 44

\* (run executes only one-pixel draws, ceiling in bytes)
EvictRuns == {<<TRUE, 10>>, <<TRUE, 1024>>, <<FALSE, 60>>}

Toggle(layerId, p) ==
  IF ReadIndex(layerObj[layerId], PixelIndex(p[1], p[2])) = Red THEN Blue ELSE Red

RecordEvict(command) ==
  /\ Len(hist.applied) < MaxEvictExec
  /\ HistoryExecute(command)
  /\ UNCHANGED <<nextCmdId, usedIds, syncVars, query, composite, toolVars>>

ExecOnePixel ==
  RecordEvict(StrokeCommand(Len(hist.applied) + 1, Doc, "L1", <<P1>>, Toggle("L1", P1)))

ExecTwoPixels ==
  /\ ~hist.uniform
  /\ RecordEvict(StrokeCommand(Len(hist.applied) + 1, Doc, "L1", <<P1, P2>>, Toggle("L1", P2)))

InitEvict ==
  /\ DocumentInit("skin", ModernHeight)
  /\ \E run \in EvictRuns : HistoryIdle(run[2], run[1])
  /\ SyncIdle /\ CompositeIdle /\ QueryIdle /\ ToolsIdle

NextEvict == ExecOnePixel \/ ExecTwoPixels \/ Undo \/ Redo

SpecEvict == InitEvict /\ [][NextEvict]_vars

IsSuffix(s, t) ==
  Len(s) <= Len(t) /\ s = SubSeq(t, Len(t) - Len(s) + 1, Len(t))

\* C4: right after every execute the undo stack is not empty and its top is
\* the command just executed, whatever the ceiling.
RecentOnTop ==
  lastOp = "execute" =>
    /\ Len(undoStack) > 0
    /\ undoStack[Len(undoStack)].id = hist.executed

\* the command alone is larger than the ceiling and older ones were evicted
RecentOnTopWitness ==
  /\ lastOp = "execute" /\ hist.evicted >= 1
  /\ getMemorySize(undoStack[Len(undoStack)], layerObj) > maxMemory
  /\ undoStack[Len(undoStack)].id = hist.executed

\* C5: after an execute the memory counter is within the ceiling or one undo
\* entry is left; the undo stack is always the newest part, in order, of the
\* commands in effect; with one-pixel draws only, the depth after an execute
\* is at most max(1, floor(ceiling / size)).
BoundedHistory ==
  /\ lastOp = "execute" => (currentMemory <= maxMemory \/ Len(undoStack) = 1)
  /\ IsSuffix(Ids(undoStack), hist.applied)
  /\ (lastOp = "execute" /\ hist.uniform) =>
       Len(undoStack) <=
         Max(1, maxMemory \div getMemorySize(undoStack[Len(undoStack)], layerObj))

\* 42 one-pixel draws of 24 bytes fill the 1024-byte ceiling, older ones gone
BoundedHistoryWitness ==
  /\ lastOp = "execute" /\ hist.uniform /\ maxMemory = 1024
  /\ Len(undoStack) = 42 /\ hist.evicted = 1 /\ Len(hist.applied) = 44
  /\ getMemorySize(undoStack[1], layerObj) = 24


(***************************************************************************)
(* SynchronizationManager                                                  *)
(*   subscribers: the Map id -> subscriber; pendingEvents: the queue;      *)
(*   rafId: "null" or "live" (a scheduled animation-frame callback).       *)
(*   sync (bookkeeping): the queue the last flush took and, for every      *)
(*   subscriber notified by it, the events its onSync received, in order;  *)
(*   cleared by the first emit of the next frame.                          *)
(***************************************************************************)
SyncEvent(type) == [type |-> type, pixels |-> <<>>, layerId |-> "", source |-> ""]
PixelChange(pixels) == [SyncEvent("pixel-change") EXCEPT !.pixels = pixels]
LayerChange(layerId) == [SyncEvent("layer-change") EXCEPT !.layerId = layerId]
FullUpdate == SyncEvent("full-update")
SelectionChange == SyncEvent("selection-change")
ViewportChange(source) == [SyncEvent("viewport-change") EXCEPT !.source = source]

IsFullUpdate(e) == e.type = "full-update"
IsPixelChange(e) == e.type = "pixel-change"
NotPixelChange(e) == e.type # "pixel-change"
KeptWithFullUpdate(e) == e.type \in {"full-update", "selection-change", "viewport-change"}

\* pixelEvents.flatMap((e) => e.pixels)
RECURSIVE FlatMapPixels(_)
FlatMapPixels(events) ==
  IF events = <<>> THEN <<>> ELSE Head(events).pixels \o FlatMapPixels(Tail(events))

coalesceNoMerge(events) ==
  IF \E i \in 1..Len(events) : IsFullUpdate(events[i])
  THEN SelectSeq(events, KeptWithFullUpdate)
  ELSE events

coalesceKeepsPixels(events) ==
  LET pixelEvents == SelectSeq(events, IsPixelChange) IN
  IF Len(pixelEvents) > 1
  THEN <<PixelChange(FlatMapPixels(pixelEvents))>> \o SelectSeq(events, NotPixelChange)
  ELSE events

coalesceMergedLast(events) ==
  IF \E i \in 1..Len(events) : IsFullUpdate(events[i])
  THEN SelectSeq(events, KeptWithFullUpdate)
  ELSE LET pixelEvents == SelectSeq(events, IsPixelChange) IN
       IF Len(pixelEvents) > 1
       THEN SelectSeq(events, NotPixelChange) \o <<PixelChange(FlatMapPixels(pixelEvents))>>
       ELSE events

coalesceEvents(events) ==
  IF \E i \in 1..Len(events) : IsFullUpdate(events[i])
  THEN SelectSeq(events, KeptWithFullUpdate)
  ELSE LET pixelEvents == SelectSeq(events, IsPixelChange) IN
       IF Len(pixelEvents) > 1
       THEN <<PixelChange(FlatMapPixels(pixelEvents))>> \o SelectSeq(events, NotPixelChange)
       ELSE events

\* subscribe(subscriber): Map.set(subscriber.id, subscriber)
Subscribe(id) ==
  /\ subscribers' = [i \in DOMAIN subscribers \cup {id} |-> id]
  /\ sync' = [sync EXCEPT !.immediate = NoImmediate]
  /\ UNCHANGED <<pendingEvents, rafId>>

\* the function subscribe returned: Map.delete(subscriber.id)
Unsubscribe(id) ==
  /\ subscribers' = [i \in DOMAIN subscribers \ {id} |-> subscribers[i]]
  /\ sync' = [sync EXCEPT !.immediate = NoImmediate]
  /\ UNCHANGED <<pendingEvents, rafId>>

\* scheduleFlush(): rafId is "null", "live" (a callback the browser will
\* run) or "cancelled" (the id of a callback that dispose has cancelled)
scheduleFlush == IF rafId = "null" THEN "live" ELSE rafId

\* emit(event): push, then scheduleFlush
Emit(event) ==
  /\ pendingEvents' = Append(pendingEvents, event)
  /\ rafId' = scheduleFlush
  /\ sync' = NoFlush
  /\ UNCHANGED subscribers

\* notifySubscribers(event): the onSync calls made on each subscriber
notifySubscribers(event) == [i \in DOMAIN subscribers |-> <<event>>]

\* an emitImmediate that also discards what emit has queued
emitImmediateDropsQueue(event) ==
  /\ sync' = [sync EXCEPT !.immediate = [event |-> event,
                                         calls |-> notifySubscribers(event)]]
  /\ pendingEvents' = <<>>
  /\ UNCHANGED <<subscribers, rafId>>

\* emitImmediate(event): notifySubscribers(event) at once; the queue, the
\* scheduled frame and the record of the last flush are left alone
emitImmediate(event) ==
  /\ sync' = [sync EXCEPT !.immediate = [event |-> event,
                                         calls |-> notifySubscribers(event)]]
  /\ UNCHANGED <<subscribers, pendingEvents, rafId>>

\* the animation-frame callback: rafId = null, then flush(); every
\* subscriber's onSync runs once per coalesced event, in order
FrameTick ==
  /\ rafId = "live"
  /\ rafId' = "null"
  /\ IF Len(pendingEvents) = 0
     THEN /\ sync' = [sync EXCEPT !.immediate = NoImmediate]
          /\ UNCHANGED pendingEvents
     ELSE LET events == coalesceEvents(pendingEvents)
          IN /\ pendingEvents' = <<>>
             /\ sync' = [flushed |-> TRUE, queued |-> pendingEvents,
                         delivered |-> [i \in DOMAIN subscribers |-> events],
                         immediate |-> NoImmediate]
  /\ UNCHANGED subscribers

\* emitImmediate(event) during which the subscribers' onSync pass the events
\* of inside to emit
emitImmediateEmitting(event, inside) ==
  /\ sync' = [sync EXCEPT !.immediate = [event |-> event,
                                         calls |-> notifySubscribers(event)]]
  /\ pendingEvents' = pendingEvents \o inside
  /\ rafId' = IF inside = <<>> THEN rafId ELSE scheduleFlush
  /\ UNCHANGED subscribers

\* the animation-frame callback during whose flush the subscribers' onSync
\* pass the events of inside to emit: they join the new, empty queue, and
\* rafId being null by then, a frame is requested
FrameTickEmitting(inside) ==
  /\ rafId = "live"
  /\ IF Len(pendingEvents) = 0
     THEN /\ inside = <<>>
          /\ rafId' = "null"
          /\ sync' = [sync EXCEPT !.immediate = NoImmediate]
          /\ UNCHANGED pendingEvents
     ELSE LET events == coalesceEvents(pendingEvents)
          IN /\ pendingEvents' = inside
             /\ rafId' = IF inside = <<>> THEN "null" ELSE "live"
             /\ sync' = [flushed |-> TRUE, queued |-> pendingEvents,
                         delivered |-> [i \in DOMAIN subscribers |-> events],
                         immediate |-> NoImmediate]
  /\ UNCHANGED subscribers

\* dispose(): cancelAnimationFrame(rafId) with rafId left as it is, the
\* subscribers and the queue emptied
dispose ==
  /\ rafId' = IF rafId = "null" THEN "null" ELSE "cancelled"
  /\ subscribers' = <<>>
  /\ pendingEvents' = <<>>
  /\ sync' = [sync EXCEPT !.immediate = NoImmediate]

(***************************************************************************)
(* SpecSync: emits of every event type, subscriptions and frame ticks      *)
(***************************************************************************)
MaxPending == 4
SubscriberIds == {"canvas2d", "viewer3d"}
PixelsA == <<Pixel(10, 10, Red)>>
PixelsB == <<Pixel(11, 10, Blue), Pixel(10, 10, Red)>>
EmittedEvents ==
  {PixelChange(PixelsA), PixelChange(PixelsB), LayerChange("L1"), FullUpdate,
   SelectionChange, ViewportChange("2d")}

Rest == UNCHANGED <<docVars, histVars, query, composite, toolVars>>

SyncSubscribe == \E id \in SubscriberIds : Subscribe(id) /\ Rest
SyncUnsubscribe == \E id \in SubscriberIds : Unsubscribe(id) /\ Rest
SyncEmit ==
  /\ Len(pendingEvents) < MaxPending
  /\ \E e \in EmittedEvents : Emit(e) /\ Rest
SyncTick == FrameTick /\ Rest
\* the store passes { type: 'full-update' } to emitImmediate
ImmediateEvents == {FullUpdate}
SyncEmitImmediate == \E e \in ImmediateEvents : emitImmediate(e) /\ Rest

InitSync ==
  /\ DocumentInit("skin", ModernHeight)
  /\ HistoryIdle(DefaultMaxMemory, FALSE)
  /\ SyncIdle /\ CompositeIdle /\ QueryIdle /\ ToolsIdle

NextSync == SyncSubscribe \/ SyncUnsubscribe \/ SyncEmit \/ SyncEmitImmediate \/ SyncTick

SpecSync == InitSync /\ [][NextSync]_vars

Count(events, type) == Cardinality({i \in 1..Len(events) : events[i].type = type})

\* C6: a flush of a queue holding one full-update and otherwise only
\* pixel-change events notifies every subscriber exactly once, with the
\* full-update.
FullUpdateAbsorbsPixels ==
  (/\ sync.flushed
   /\ Count(sync.queued, "full-update") = 1
   /\ Count(sync.queued, "pixel-change") = Len(sync.queued) - 1)
  => \A i \in DOMAIN sync.delivered : sync.delivered[i] = <<FullUpdate>>

\* three pixel-change events and one full-update, two subscribers notified
FullUpdateAbsorbsPixelsWitness ==
  /\ sync.flushed
  /\ Count(sync.queued, "full-update") = 1
  /\ Count(sync.queued, "pixel-change") = 3
  /\ DOMAIN sync.delivered = SubscriberIds
  /\ \A i \in SubscriberIds : sync.delivered[i] = <<FullUpdate>>

RECURSIVE PixelsInOrder(_, _), OthersInOrder(_, _)
PixelsInOrder(events, i) ==
  IF i > Len(events) THEN <<>>
  ELSE (IF events[i].type = "pixel-change" THEN events[i].pixels ELSE <<>>)
       \o PixelsInOrder(events, i + 1)
OthersInOrder(events, i) ==
  IF i > Len(events) THEN <<>>
  ELSE (IF events[i].type = "pixel-change" THEN <<>> ELSE <<events[i]>>)
       \o OthersInOrder(events, i + 1)

\* C8: without a full-update and with two or more pixel-change events
\* queued, every subscriber receives first one pixel-change carrying the
\* queued pixel lists concatenated in emit order, then the other events in
\* emit order.
PixelChangesMerged ==
  (/\ sync.flushed
   /\ Count(sync.queued, "full-update") = 0
   /\ Count(sync.queued, "pixel-change") >= 2)
  => \A i \in DOMAIN sync.delivered :
       sync.delivered[i] =
         <<PixelChange(PixelsInOrder(sync.queued, 1))>> \o OthersInOrder(sync.queued, 1)

\* B, layer-change, A queued: merged list B then A (the repeated pixel kept),
\* delivered ahead of the layer-change
PixelChangesMergedWitness ==
  /\ sync.flushed
  /\ sync.queued = <<PixelChange(PixelsB), LayerChange("L1"), PixelChange(PixelsA)>>
  /\ \E i \in DOMAIN sync.delivered :
       sync.delivered[i] = <<PixelChange(PixelsB \o PixelsA), LayerChange("L1")>>


(***************************************************************************)
(* SpecRegion: the validator asked about every texture pixel               *)
(***************************************************************************)
\* isBasePixel(x, y) and isOverlayPixel(x, y), both evaluated for the pixel
ClassifyPixel ==
  /\ ~query.asked
  /\ query' = [query EXCEPT !.asked = TRUE,
                            !.base = isBasePixel(query.x, query.y),
                            !.overlay = isOverlayPixel(query.x, query.y)]
  /\ UNCHANGED <<docVars, histVars, syncVars, composite, toolVars>>

InitRegion ==
  /\ DocumentInit("skin", ModernHeight)
  /\ HistoryIdle(DefaultMaxMemory, FALSE)
  /\ SyncIdle /\ CompositeIdle /\ ToolsIdle
  /\ \E x \in 0..(TextureWidth - 1), y \in 0..(ModernHeight - 1) :
       query = [x |-> x, y |-> y, asked |-> FALSE, base |-> FALSE, overlay |-> FALSE]

NextRegion == ClassifyPixel

SpecRegion == InitRegion /\ [][NextRegion]_vars

\* C9: no pixel of the 64x64 texture is classified both as base and as
\* overlay.
RegionsDisjoint == query.asked => ~(query.base /\ query.overlay)

\* the last base column of the head row, next to the first overlay column
RegionsDisjointWitness ==
  /\ query.asked /\ query.x = 31 /\ query.y = 8
  /\ query.base /\ ~query.overlay
  /\ isOverlayPixel(32, 8) /\ ~isBasePixel(32, 8)


(***************************************************************************)
(* useToolHandler and the store operations it reaches                      *)
(***************************************************************************)
\* getContext(): the settings and the active layer's id (the layer itself is
\* handed to the tool as e.layer)
getContext ==
  [layerId |-> cfg.activeLayerId, primaryColor |-> cfg.primaryColor,
   secondaryColor |-> cfg.secondaryColor, brushSize |-> cfg.brushSize,
   brushOpacity |-> cfg.brushOpacity, symmetryMode |-> cfg.symmetryMode,
   paintTarget |-> cfg.paintTarget, width |-> TextureWidth, height |-> cfg.height]

HasActiveLayer == FindIndex(layers, cfg.activeLayerId) # -1
ActiveLayer == layerObj[cfg.activeLayerId]

\* a test that lets a locked layer through
NoContext == ~HasActiveLayer

\* if (!tool || !context) return null; if (layer?.locked) return null
NoContextOrLocked == ~HasActiveLayer \/ layerObj[cfg.activeLayerId].locked

\* handleStart(x, y, useSecondary)
handleStart(point, useSecondary, seed) ==
  IF NoContextOrLocked
  THEN /\ gesture' = [gesture EXCEPT !.returned = "null", !.call = "start"]
       /\ UNCHANGED <<layerObj, tool>>
  ELSE LET before == layerObj[cfg.activeLayerId]
           e == onStart(cfg.activeTool,
                        [tool |-> reset(tool), layer |-> before,
                         fault |-> FALSE],
                        point, getContext, useSecondary, seed)
       IN /\ layerObj' = [layerObj EXCEPT ![cfg.activeLayerId] = e.layer]
          /\ tool' = e.tool
          /\ gesture' = [activeToolRef |-> TRUE, phase |-> "drawing", moves |-> 0,
                         useSecondary |-> useSecondary, before |-> before,
                         after |-> before, committed |-> FALSE, fault |-> e.fault,
                         returned |-> "result", call |-> "start",
                         starts |-> gesture.starts + 1]

\* handleMove(x, y, useSecondary)
handleMove(point, useSecondary, seed) ==
  IF ~gesture.activeToolRef \/ ~HasActiveLayer
  THEN /\ gesture' = [gesture EXCEPT !.returned = "null", !.call = "move"]
       /\ UNCHANGED <<layerObj, tool>>
  ELSE LET e == onMove(cfg.activeTool,
                       [tool |-> tool, layer |-> layerObj[cfg.activeLayerId],
                        fault |-> gesture.fault],
                       point, getContext, useSecondary, seed)
       IN /\ layerObj' = [layerObj EXCEPT ![cfg.activeLayerId] = e.layer]
          /\ tool' = e.tool
          /\ gesture' = [gesture EXCEPT !.moves = @ + 1, !.fault = e.fault,
                                        !.returned = "result", !.call = "move"]

\* executeCommand(command) of the store, on the document d
executeCommand(command, d) ==
  /\ HistoryExecuteOn(command, d)
  /\ Emit(FullUpdate)

\* handleEnd(x, y)
handleEnd(point) ==
  IF ~gesture.activeToolRef \/ ~HasActiveLayer
  THEN /\ gesture' = [gesture EXCEPT !.activeToolRef = FALSE, !.phase = "ended",
                                     !.returned = "null", !.call = "end"]
       /\ UNCHANGED <<docVars, histVars, syncVars, tool>>
  ELSE LET e == onEnd(cfg.activeTool,
                      [tool |-> tool, layer |-> layerObj[cfg.activeLayerId],
                       fault |-> gesture.fault],
                      point, getContext)
           painted == [layerObj EXCEPT ![cfg.activeLayerId] = e.layer]
           commits == isCompleteOnEnd(cfg.activeTool) /\ Len(e.tool.originalPixels) > 0
       IN /\ tool' = e.tool
          /\ gesture' = [gesture EXCEPT !.activeToolRef = FALSE, !.phase = "ended",
                                        !.after = e.layer, !.committed = commits,
                                        !.fault = e.fault, !.returned = "result",
                                        !.call = "end"]
          /\ IF commits
             THEN /\ executeCommand(DrawCommand(nextCmdId, cfg.activeLayerId,
                                                e.tool.originalPixels,
                                                e.tool.changedPixels),
                                    [layers |-> layers, obj |-> painted])
                  /\ nextCmdId' = nextCmdId + 1
                  /\ UNCHANGED usedIds
             ELSE /\ layerObj' = painted
                  /\ UNCHANGED <<layers, usedIds, histVars, syncVars>>

\* loadSkin(imageData, format, ...): a new one-layer document of the
\* format's height over a clone of the image, and an empty history
loadSkin(imageHeight, format) ==
  LET id == CHOOSE l \in LayerPool \ usedIds : TRUE
  IN /\ layers' = <<id>>
     /\ layerObj' = [layerObj EXCEPT ![id] = NewLayer("image", imageHeight)]
     /\ usedIds' = usedIds \cup {id}
     /\ cfg' = [cfg EXCEPT !.height = IF format = "modern" THEN ModernHeight
                                      ELSE LegacyHeight,
                           !.activeLayerId = id]
     /\ HistoryClear
     /\ emitImmediate(FullUpdate)
     /\ UNCHANGED nextCmdId

\* a newDocument that leaves the history of the document it replaces
newDocumentKeepsHistory(format, useSteveSkin, steveSkin) ==
  LET id == CHOOSE l \in LayerPool \ usedIds : TRUE
      height == IF format = "modern" THEN ModernHeight ELSE LegacyHeight
      base == IF useSteveSkin /\ format = "modern" THEN steveSkin ELSE "skin"
  IN /\ layers' = <<id>>
     /\ layerObj' = [layerObj EXCEPT ![id] = NewLayer(base, height)]
     /\ usedIds' = usedIds \cup {id}
     /\ cfg' = [cfg EXCEPT !.height = height, !.activeLayerId = id]
     /\ lastOp' = "clear"
     /\ emitImmediate(FullUpdate)
     /\ UNCHANGED <<undoStack, redoStack, currentMemory, maxMemory, ret, hist, nextCmdId>>

\* newDocument(options): the document createSkinDocument(options) returns,
\* over Steve's picture as getSteveSkin() has it or over the flat default,
\* and an empty history
newDocument(format, useSteveSkin, steveSkin) ==
  LET id == CHOOSE l \in LayerPool \ usedIds : TRUE
      height == IF format = "modern" THEN ModernHeight ELSE LegacyHeight
      base == IF useSteveSkin /\ format = "modern" THEN steveSkin ELSE "skin"
  IN /\ layers' = <<id>>
     /\ layerObj' = [layerObj EXCEPT ![id] = NewLayer(base, height)]
     /\ usedIds' = usedIds \cup {id}
     /\ cfg' = [cfg EXCEPT !.height = height, !.activeLayerId = id]
     /\ HistoryClear
     /\ emitImmediate(FullUpdate)
     /\ UNCHANGED nextCmdId

\* isToolActive()
isToolActive == gesture.activeToolRef /\ tool.isActive

\* cancelTool(): tool.reset() and activeToolRef.current = null
cancelTool ==
  IF gesture.activeToolRef
  THEN /\ tool' = reset(tool)
       /\ gesture' = [gesture EXCEPT !.activeToolRef = FALSE, !.phase = "ended",
                                     !.returned = "none", !.call = "cancel"]
  ELSE UNCHANGED <<tool, gesture>>

(***************************************************************************)
(* Canvas2DView: mouse handlers (no panning).  A screen position is given  *)
(* as the skin coordinates it falls on, possibly outside the skin.         *)
(***************************************************************************)
\* Canvas2DRenderer.screenToSkin: null (<<>>) outside the skin
screenToSkin(p) ==
  IF p[1] < 0 \/ p[1] >= TextureWidth \/ p[2] < 0 \/ p[2] >= cfg.height THEN <<>> ELSE p

PointerDown(kind) ==
  [view EXCEPT !.kind = kind, !.pointer = "down", !.undoAtDown = Len(undoStack),
               !.layerAtDown = ActiveLayer]

handleMouseDown(p, rightButton, seed) ==
  LET point == screenToSkin(p)
  IN IF point = <<>>
     THEN /\ view' = PointerDown("2d")
          /\ UNCHANGED <<layerObj, tool, gesture>>
     ELSE /\ view' = [PointerDown("2d") EXCEPT !.isRightClickRef = rightButton]
          /\ handleStart(point, rightButton, seed)

handleMouseMove(p, seed) ==
  LET point == screenToSkin(p)
  IN IF ~isToolActive \/ point = <<>>
     THEN UNCHANGED <<layerObj, tool, gesture>>
     ELSE handleMove(point, view.isRightClickRef, seed)

handleMouseUp(p) ==
  LET point == screenToSkin(p)
  IN IF ~isToolActive
     THEN /\ view' = [view EXCEPT !.pointer = "released"]
          /\ UNCHANGED <<docVars, histVars, syncVars, tool, gesture>>
     ELSE /\ handleEnd(IF point # <<>> THEN point ELSE <<0, 0>>)
          /\ view' = [view EXCEPT !.pointer = "released", !.isRightClickRef = FALSE]

handleMouseLeave ==
  IF isToolActive
  THEN /\ handleEnd(<<0, 0>>)
       /\ view' = [view EXCEPT !.pointer = "left", !.isRightClickRef = FALSE]
  ELSE /\ view' = [view EXCEPT !.pointer = "left"]
       /\ UNCHANGED <<docVars, histVars, syncVars, tool, gesture>>

(***************************************************************************)
(* Viewer3D: paint handlers, called by the meshes of PlayerModel with the  *)
(* texture coordinates the pointer's ray hits                              *)
(***************************************************************************)
SUPPORTED_3D_TOOLS ==
  {"pencil", "eraser", "eyedropper", "fill", "line", "noise", "color-replacement"}

\* BodyPart.handlePointerDown: handlePaintStart(), then handlePaint(texCoord)
\* on the first point of the stroke
handlePaintStart(texCoord, seed) ==
  IF cfg.activeTool \notin SUPPORTED_3D_TOOLS
  THEN /\ view' = PointerDown("3d")
       /\ UNCHANGED <<layerObj, tool, gesture>>
  ELSE /\ view' = [PointerDown("3d") EXCEPT !.isPaintingRef = TRUE,
                                            !.lastPointRef = texCoord]
       /\ handleStart(texCoord, FALSE, seed)

\* handlePaint(point) while the button is held
handlePaint(point, seed) ==
  IF cfg.activeTool \notin SUPPORTED_3D_TOOLS
  THEN UNCHANGED <<layerObj, tool, gesture, view>>
  ELSE /\ view' = [view EXCEPT !.lastPointRef = point]
       /\ IF view.lastPointRef = <<>> THEN handleStart(point, FALSE, seed)
          ELSE handleMove(point, FALSE, seed)

\* handlePaintEnd(), also reached through the global pointerup listener
handlePaintEnd ==
  IF ~view.isPaintingRef
  THEN /\ view' = [view EXCEPT !.pointer = "released"]
       /\ UNCHANGED <<docVars, histVars, syncVars, tool, gesture>>
  ELSE /\ view' = [view EXCEPT !.pointer = "released", !.isPaintingRef = FALSE,
                                !.lastPointRef = <<>>]
       /\ IF view.lastPointRef # <<>> THEN handleEnd(view.lastPointRef)
          ELSE UNCHANGED <<docVars, histVars, syncVars, tool, gesture>>

(***************************************************************************)
(* SpecTools: one gesture with each painting tool on a document that was   *)
(* created by newDocument() or replaced by loadSkin, then undo and redo    *)
(***************************************************************************)
MaxMoves == 1
Points == {<<-1, 31>>, <<2, 31>>, <<6, 32>>}
PaintingTools == {"pencil", "eraser", "noise", "line", "gradient", "fill"}
BrushSettings(id) == IF usesBrushSize(id) THEN {<<1, "none">>, <<3, "both">>}
                     ELSE {<<1, "none">>}
TargetSettings == {<<"base", <<1, 2>>>>, <<"overlay", <<1, 1>>>>}
Seeds(id) == IF id = "noise" THEN {0, 2} ELSE {0}
ToolSettings ==
  {[DefaultSettings EXCEPT !.activeTool = id, !.primaryColor = Red,
                           !.secondaryColor = Blue, !.brushSize = b[1],
                           !.symmetryMode = b[2], !.paintTarget = t[1],
                           !.brushOpacity = t[2]] :
     id \in PaintingTools, b \in {<<1, "none">>, <<3, "both">>}, t \in TargetSettings}

InitTools ==
  /\ DocumentInit("image", ModernHeight)
  /\ HistoryIdle(DefaultMaxMemory, FALSE)
  /\ SyncIdle /\ CompositeIdle /\ QueryIdle
  /\ cfg \in {c \in ToolSettings : <<c.brushSize, c.symmetryMode>> \in BrushSettings(c.activeTool)}
  /\ tool = createToolState(<<0, 0, 0, 255>>)
  /\ gesture = GestureIdle
  /\ view = ViewIdle

Untouched == gesture.phase = "idle" /\ undoStack = <<>> /\ redoStack = <<>>

LoadSkin ==
  /\ Untouched /\ usedIds = {"L1"}
  /\ \E imageHeight \in {LegacyHeight, ModernHeight}, format \in {"modern", "legacy"} :
       loadSkin(imageHeight, format)
  /\ UNCHANGED <<query, composite, tool, gesture, view>>

HandleStart ==
  /\ Untouched
  /\ \E point \in Points, useSecondary \in BOOLEAN, seed \in Seeds(cfg.activeTool) :
       handleStart(point, useSecondary, seed)
  /\ UNCHANGED <<layers, usedIds, histVars, syncVars, query, composite, cfg, view>>

HandleMove ==
  /\ gesture.phase = "drawing" /\ gesture.moves < MaxMoves
  /\ \E point \in Points, seed \in Seeds(cfg.activeTool) :
       handleMove(point, gesture.useSecondary, seed)
  /\ UNCHANGED <<layers, usedIds, histVars, syncVars, query, composite, cfg, view>>

HandleEnd ==
  /\ gesture.phase = "drawing"
  /\ \E point \in Points : handleEnd(point)
  /\ UNCHANGED <<query, composite, cfg, view>>

\* undo() / redo() of the store, between gestures
StoreUndo ==
  /\ gesture.phase = "ended"
  /\ HistoryUndo
  /\ emitImmediate(FullUpdate)
  /\ UNCHANGED <<nextCmdId, usedIds, query, composite, toolVars>>

StoreRedo ==
  /\ gesture.phase = "ended"
  /\ HistoryRedo
  /\ emitImmediate(FullUpdate)
  /\ UNCHANGED <<nextCmdId, usedIds, query, composite, toolVars>>

NextTools == LoadSkin \/ HandleStart \/ HandleMove \/ HandleEnd \/ StoreUndo \/ StoreRedo

SpecTools == InitTools /\ [][NextTools]_vars

\* C3: once a gesture has been committed as a DrawCommand, the layer after a
\* store undo equals, pixel for pixel, the layer before handleStart, and the
\* layer after a following redo equals the layer the stroke left
StrokeUndoRedo ==
  gesture.committed =>
    /\ (lastOp = "undo" => ActiveLayer = gesture.before)
    /\ (lastOp = "redo" => ActiveLayer = gesture.after)

\* a pencil stroke painted [255,0,0,255] over a transparent pixel, was undone
\* and then redone
StrokeUndoRedoWitness ==
  /\ cfg.activeTool = "pencil" /\ gesture.committed
  /\ lastOp = "redo" /\ ret = TRUE
  /\ gesture.before # gesture.after
  /\ \E x \in 0..(TextureWidth - 1), y \in 0..(ActiveLayer.height - 1) :
       /\ ReadIndex(gesture.before, PixelIndex(x, y)) = Transparent
       /\ ReadIndex(ActiveLayer, PixelIndex(x, y)) = <<255, 0, 0, 255>>

\* the pixels on which two states of a layer differ
Differing(a, b) ==
  {k \in DOMAIN a.px \cup DOMAIN b.px :
     ReadIndex(a, PixelIndex(k[1], k[2])) # ReadIndex(b, PixelIndex(k[1], k[2]))}

\* C10: during and after a gesture of any painting tool, every pixel of the
\* layer that differs from its value before the gesture is inside the canvas
\* and of the context's paint target, and no index outside the layer's
\* buffer has been read or written
PaintConfined ==
  gesture.phase # "idle" =>
    /\ ~gesture.fault
    /\ \A k \in Differing(gesture.before, ActiveLayer) :
         /\ isInBounds(k[1], k[2], TextureWidth, cfg.height)
         /\ isValidForPaintTarget(k[1], k[2], cfg.paintTarget)

(***************************************************************************)
(* Layer operations of the store.  A canvas has the document's size; a     *)
(* layer is drawn on it with putImageData / drawImage (layer opacity 1,    *)
(* blend mode normal, as createLayer sets them).                           *)
(***************************************************************************)
Grid(height) == {<<x, y>> : x \in 0..(TextureWidth - 1), y \in 0..(height - 1)}

\* the pixel a layer contributes to a canvas at k
CanvasRead(layer, k) ==
  IF IndexInBuffer(layer, PixelIndex(k[1], k[2])) /\ k[2] < layer.height
  THEN ReadIndex(layer, PixelIndex(k[1], k[2]))
  ELSE Transparent

\* ctx.drawImage(upperCanvas, 0, 0) over a canvas holding lower, read back
\* with getImageData at the document's size
DrawImageOver(lower, upper, height) ==
  LET touched == IF upper.base = "blank" THEN DOMAIN upper.px ELSE Grid(height)
      cand == {k \in DOMAIN lower.px \cup touched : k[2] < height}
      merged(k) == blendColors(CanvasRead(lower, k), CanvasRead(upper, k), <<1, 1>>)
      kept == {k \in cand : merged(k) # BaseImageColor(lower.base, k[1], k[2])}
  IN [lower EXCEPT !.height = height, !.px = [k \in kept |-> merged(k)]]

\* updateComposite: the visible layers drawn bottom to top on an empty canvas
RECURSIVE CompositeFrom(_, _, _, _, _)
CompositeFrom(canvas, ls, obj, i, height) ==
  IF i > Len(ls) THEN canvas
  ELSE CompositeFrom(IF obj[ls[i]].visible
                     THEN DrawImageOver(canvas, obj[ls[i]], height) ELSE canvas,
                     ls, obj, i + 1, height)

compositeImageData ==
  CompositeFrom(NewLayer("blank", cfg.height), layers, layerObj, 1, cfg.height)

\* crypto.randomUUID(), drawn from the identities the heap has room for
randomUUID == CHOOSE id \in DOMAIN layerObj \ usedIds : TRUE

setActiveLayer(layerId) ==
  /\ cfg' = IF FindIndex(layers, layerId) # -1
            THEN [cfg EXCEPT !.activeLayerId = layerId] ELSE cfg
  /\ UNCHANGED <<docVars, syncVars>>

addLayer ==
  LET insertIndex == FindIndex(layers, cfg.activeLayerId) + 1
  IN /\ layers' = SpliceInsert(layers, insertIndex, randomUUID)
     /\ layerObj' = [layerObj EXCEPT ![randomUUID] = NewLayer("blank", cfg.height)]
     /\ usedIds' = usedIds \cup {randomUUID}
     /\ cfg' = [cfg EXCEPT !.activeLayerId = randomUUID]
     /\ Emit(FullUpdate)

\* a deleteLayer that makes the layer above the deleted one active
deleteLayerActivatesAbove(layerId) ==
  LET index == FindIndex(layers, layerId)
      newLayers == SpliceRemove(layers, index)
  IN IF Len(layers) <= 1 \/ index = -1
     THEN UNCHANGED <<docVars, cfg, syncVars>>
     ELSE /\ layers' = newLayers
          /\ cfg' = IF cfg.activeLayerId = layerId
                    THEN [cfg EXCEPT !.activeLayerId =
                                       newLayers[Min(index, Len(newLayers) - 1) + 1]]
                    ELSE cfg
          /\ Emit(FullUpdate)
          /\ UNCHANGED <<layerObj, usedIds>>

deleteLayer(layerId) ==
  LET index == FindIndex(layers, layerId)
      newLayers == SpliceRemove(layers, index)
  IN IF Len(layers) <= 1 \/ index = -1
     THEN UNCHANGED <<docVars, cfg, syncVars>>
     ELSE /\ layers' = newLayers
          /\ cfg' = IF cfg.activeLayerId = layerId
                    THEN [cfg EXCEPT !.activeLayerId = newLayers[Max(0, index - 1) + 1]]
                    ELSE cfg
          /\ Emit(FullUpdate)
          /\ UNCHANGED <<layerObj, usedIds>>

duplicateLayer(layerId) ==
  IF FindIndex(layers, layerId) = -1
  THEN UNCHANGED <<docVars, cfg, syncVars>>
  ELSE /\ layers' = SpliceInsert(layers, FindIndex(layers, layerId) + 1, randomUUID)
       /\ layerObj' = [layerObj EXCEPT ![randomUUID] = layerObj[layerId]]
       /\ usedIds' = usedIds \cup {randomUUID}
       /\ cfg' = [cfg EXCEPT !.activeLayerId = randomUUID]
       /\ Emit(FullUpdate)

moveLayer(layerId, direction) ==
  LET index == FindIndex(layers, layerId)
      newIndex == IF direction = "up" THEN index + 1 ELSE index - 1
  IN IF index = -1 \/ newIndex < 0 \/ newIndex >= Len(layers)
     THEN UNCHANGED <<docVars, cfg, syncVars>>
     ELSE /\ layers' = SpliceInsert(SpliceRemove(layers, index), newIndex, layerId)
          /\ Emit(FullUpdate)
          /\ UNCHANGED <<layerObj, usedIds, cfg>>

mergeDown(layerId) ==
  LET index == FindIndex(layers, layerId)
      upper == layers[index + 1]
      lower == layers[index]
  IN IF index <= 0
     THEN UNCHANGED <<docVars, cfg, syncVars>>
     ELSE /\ layers' = SpliceRemove(layers, index)
          /\ layerObj' = [layerObj EXCEPT
                            ![lower] = DrawImageOver(@, layerObj[upper], cfg.height)]
          /\ cfg' = [cfg EXCEPT !.activeLayerId = lower]
          /\ Emit(FullUpdate)
          /\ UNCHANGED usedIds

flattenLayers ==
  /\ layers' = <<randomUUID>>
  /\ layerObj' = [layerObj EXCEPT ![randomUUID] = compositeImageData]
  /\ usedIds' = usedIds \cup {randomUUID}
  /\ cfg' = [cfg EXCEPT !.activeLayerId = randomUUID]
  /\ Emit(FullUpdate)

(***************************************************************************)
(* SpecLayers: the store's layer operations, commands run through          *)
(* executeCommand, undo and redo, and the frames that flush the queue      *)
(***************************************************************************)
MaxLayerIds == 3
MaxLayerCmds == 1
MaxQueued == 1
LayerNames == <<"L1", "L2", "L3", "L4", "L5">>
StorePool == {LayerNames[i] : i \in 1..MaxLayerIds}

CanQueue == Len(pendingEvents) < MaxQueued
HasFresh == DOMAIN layerObj \ usedIds # {}
Steady == UNCHANGED <<histVars, query, composite, tool, gesture, view>>

SetActiveLayer == \E l \in StorePool : setActiveLayer(l) /\ Steady
AddLayer == CanQueue /\ HasFresh /\ addLayer /\ Steady
DeleteLayer == CanQueue /\ \E l \in StorePool : deleteLayer(l) /\ Steady
DuplicateLayer == CanQueue /\ HasFresh /\ \E l \in StorePool : duplicateLayer(l) /\ Steady
MoveLayer ==
  CanQueue /\ \E l \in StorePool, direction \in {"up", "down"} :
                 moveLayer(l, direction) /\ Steady
MergeDown == CanQueue /\ \E l \in StorePool : mergeDown(l) /\ Steady
FlattenLayers == CanQueue /\ HasFresh /\ flattenLayers /\ Steady

\* executeCommand(command) of the store
StoreExecute(command, created) ==
  /\ CanQueue /\ nextCmdId <= MaxLayerCmds
  /\ executeCommand(command, Doc)
  /\ nextCmdId' = nextCmdId + 1
  /\ usedIds' = usedIds \cup created
  /\ UNCHANGED <<query, composite, toolVars>>

\* a command names a layer that exists or has existed
ExecuteDraw ==
  \E l \in usedIds : StoreExecute(StrokeCommand(nextCmdId, Doc, l, <<P1>>, Red), {})
ExecuteProperty ==
  \E l \in usedIds : StoreExecute(LayerPropertyCommand(nextCmdId, l, "visible", FALSE), {})
ExecuteCreate ==
  /\ HasFresh
  /\ \E at \in 0..Len(layers) :
       StoreExecute(CreateLayerCommand(nextCmdId, randomUUID, at), {randomUUID})
ExecuteDelete ==
  \E l \in usedIds : StoreExecute(DeleteLayerCommand(nextCmdId, l), {})

LayersUndo ==
  HistoryUndo /\ emitImmediate(FullUpdate) /\ UNCHANGED <<nextCmdId, usedIds, query, composite, toolVars>>
LayersRedo ==
  HistoryRedo /\ emitImmediate(FullUpdate) /\ UNCHANGED <<nextCmdId, usedIds, query, composite, toolVars>>
LayersTick == FrameTick /\ UNCHANGED <<docVars, histVars, query, composite, toolVars>>

\* newDocument() before the Steve image has loaded: one empty layer
InitLayers ==
  /\ layers = <<"L1">>
  /\ layerObj = [id \in StorePool |-> NewLayer("blank", ModernHeight)]
  /\ usedIds = {"L1"}
  /\ HistoryIdle(DefaultMaxMemory, FALSE)
  /\ SyncIdle /\ CompositeIdle /\ QueryIdle /\ ToolsIdle

NextLayers ==
  \/ SetActiveLayer \/ AddLayer \/ DeleteLayer \/ DuplicateLayer \/ MoveLayer
  \/ MergeDown \/ FlattenLayers
  \/ ExecuteDraw \/ ExecuteProperty \/ ExecuteCreate \/ ExecuteDelete
  \/ LayersUndo \/ LayersRedo \/ LayersTick

SpecLayers == InitLayers /\ [][NextLayers]_vars

\* C11: the document has at least one layer and activeLayerId is the id of
\* a layer in the layer list
ActiveLayerPresent ==
  /\ Len(layers) >= 1
  /\ FindIndex(layers, cfg.activeLayerId) # -1

(***************************************************************************)
(* SpecFill: the fill tool on an empty layer, on an image and on an image  *)
(* that loadSkin put under a document of another height                    *)
(***************************************************************************)
HeadPoints == {<<40, 0>>, <<47, 7>>, <<39, 0>>, <<64, 8>>}
FillDocuments == {<<"blank", "overlay">>, <<"image", "base">>, <<"image", "overlay">>}
FillOpacities == {<<1, 2>>, <<1, 1>>}

InitFill ==
  /\ \E doc \in FillDocuments, opacity \in FillOpacities :
       /\ DocumentInit(doc[1], ModernHeight)
       /\ cfg = [DefaultSettings EXCEPT !.activeTool = "fill", !.primaryColor = Red,
                                        !.secondaryColor = Blue, !.paintTarget = doc[2],
                                        !.brushOpacity = opacity]
  /\ HistoryIdle(DefaultMaxMemory, FALSE)
  /\ SyncIdle /\ CompositeIdle /\ QueryIdle
  /\ tool = createToolState(<<0, 0, 0, 255>>)
  /\ gesture = GestureIdle
  /\ view = ViewIdle

\* on the empty layer the fill starts in or beside the head overlay
FillStart ==
  /\ Untouched
  /\ \E point \in (IF ActiveLayer.base = "blank" THEN HeadPoints ELSE Points),
        useSecondary \in BOOLEAN :
       handleStart(point, useSecondary, 0)
  /\ UNCHANGED <<layers, usedIds, histVars, syncVars, query, composite, cfg, view>>

NextFill == LoadSkin \/ FillStart \/ HandleMove \/ HandleEnd \/ StoreUndo \/ StoreRedo

SpecFill == InitFill /\ [][NextFill]_vars

Neighbours(points) ==
  {<<p[1] + d[1], p[2] + d[2]>> :
     p \in points, d \in {<<1, 0>>, <<-1, 0>>, <<0, 1>>, <<0, -1>>}}

\* the points 4-connected to seen through points of match
RECURSIVE Reach(_, _, _)
Reach(seen, frontier, match) ==
  IF frontier = {} THEN seen
  ELSE LET next == {q \in Neighbours(frontier) : q \in match /\ q \notin seen}
       IN Reach({v : v \in seen \cup next}, {v : v \in next}, match)

\* the pixels a fill from start has to paint on the layer before
FillRegion(before, start, fillColor, ctx) ==
  LET targetColor == getPixel(start[1], start[2], before)
      match == {p \in Grid(ctx.height) :
                  /\ isValidForPaintTarget(p[1], p[2], ctx.paintTarget)
                  /\ colorsEqual(getPixel(p[1], p[2], before), targetColor, TOLERANCE)}
  IN IF /\ isInBounds(start[1], start[2], ctx.width, ctx.height)
        /\ isValidForPaintTarget(start[1], start[2], ctx.paintTarget)
        /\ ~colorsEqual(targetColor, fillColor, 0)
        /\ start \in match
     THEN Reach({start}, {start}, match)
     ELSE {}

Filled == cfg.activeTool = "fill" /\ gesture.phase = "drawing" /\ gesture.moves = 0
Painted == {<<tool.changedPixels[i].x, tool.changedPixels[i].y>> :
              i \in 1..Len(tool.changedPixels)}
InHeadOverlay(p) ==
  InRegion(p[1], p[2], OVERLAY_UV_REGIONS[1]) \/ InRegion(p[1], p[2], OVERLAY_UV_REGIONS[2])

ViewSettings ==
  {[DefaultSettings EXCEPT !.activeTool = id, !.primaryColor = Red,
                           !.secondaryColor = Blue, !.paintTarget = t[1],
                           !.brushOpacity = t[2]] :
     id \in PaintingTools, t \in TargetSettings}

\* texture coordinates on a mesh of the paint target
TexCoords == {p \in Points : /\ screenToSkin(p) # <<>>
                             /\ isValidForPaintTarget(p[1], p[2], cfg.paintTarget)}

InitViews ==
  /\ DocumentInit("image", ModernHeight)
  /\ HistoryIdle(DefaultMaxMemory, FALSE)
  /\ SyncIdle /\ CompositeIdle /\ QueryIdle
  /\ cfg \in ViewSettings
  /\ tool = createToolState(<<0, 0, 0, 255>>)
  /\ gesture = GestureIdle
  /\ view = ViewIdle

MouseDown ==
  /\ view.pointer = "up"
  /\ \E p \in Points, rightButton \in BOOLEAN, seed \in Seeds(cfg.activeTool) :
       handleMouseDown(p, rightButton, seed)
  /\ UNCHANGED <<layers, usedIds, histVars, syncVars, query, composite, cfg>>

MouseMove ==
  /\ view.kind = "2d" /\ view.pointer = "down" /\ gesture.moves < MaxMoves
  /\ \E p \in Points, seed \in Seeds(cfg.activeTool) : handleMouseMove(p, seed)
  /\ UNCHANGED <<layers, usedIds, histVars, syncVars, query, composite, cfg, view>>

MouseUp ==
  /\ view.kind = "2d" /\ view.pointer = "down"
  /\ \E p \in Points : handleMouseUp(p)
  /\ UNCHANGED <<query, composite, cfg>>

MouseLeave ==
  /\ view.kind = "2d" /\ view.pointer = "down"
  /\ handleMouseLeave
  /\ UNCHANGED <<query, composite, cfg>>

PaintDown ==
  /\ view.pointer = "up"
  /\ \E texCoord \in TexCoords, seed \in Seeds(cfg.activeTool) :
       handlePaintStart(texCoord, seed)
  /\ UNCHANGED <<layers, usedIds, histVars, syncVars, query, composite, cfg>>

PaintDrag ==
  /\ view.kind = "3d" /\ view.pointer = "down" /\ gesture.moves < MaxMoves
  /\ \E point \in TexCoords, seed \in Seeds(cfg.activeTool) : handlePaint(point, seed)
  /\ UNCHANGED <<layers, usedIds, histVars, syncVars, query, composite, cfg>>

PaintUp ==
  /\ view.kind = "3d" /\ view.pointer = "down"
  /\ handlePaintEnd
  /\ UNCHANGED <<query, composite, cfg>>

NextViews ==
  MouseDown \/ MouseMove \/ MouseUp \/ MouseLeave \/ PaintDown \/ PaintDrag \/ PaintUp

SpecViews == InitViews /\ [][NextViews]_vars

\* C13: once the pointer has been released, a gesture that changed a pixel of
\* the layer has put exactly one new command on the undo stack, and a
\* gesture that touched no pixel has put none, in the 2D and in the 3D view
GestureCommitsOnce ==
  view.pointer = "released" =>
    /\ (ActiveLayer # view.layerAtDown => Len(undoStack) = view.undoAtDown + 1)
    /\ (tool.originalPixels = <<>> => Len(undoStack) = view.undoAtDown)

\* C14: once the pointer has left the 2D canvas, the stroke that was in
\* progress has been aborted: no command has been added to the undo stack
\* since the mouse went down, and the tool is no longer active
LeaveAborts ==
  view.pointer = "left" =>
    /\ Len(undoStack) = view.undoAtDown
    /\ ~isToolActive

\* the coordinates that are keys of a pixel map
Keys(m) == {<<m[i].x, m[i].y>> : i \in 1..Len(m)}

EmptyStackNoOp ==
  [][(\/ lastOp' = "undo" /\ Len(undoStack) = 0
      \/ lastOp' = "redo" /\ Len(redoStack) = 0)
       => /\ ret' = FALSE
          /\ UNCHANGED <<layers, layerObj, undoStack, redoStack, currentMemory>>]_vars

\* every command has been undone and one more undo has returned false: the
\* undone commands are still on the redo stack
EmptyStackNoOpWitness ==
  /\ lastOp = "undo" /\ ret = FALSE
  /\ undoStack = <<>> /\ Len(redoStack) >= 2
  /\ currentMemory > 0

\* C17: a step that executes, undoes or redoes a DrawCommand or a
\* LayerPropertyCommand whose layer id is not in the document's layer list
\* leaves the layer list and every layer unchanged; an execute still pushes
\* the command on the undo stack, and an undo or redo still moves it to the
\* other stack and returns true
AbsentLayerNoOp ==
  [][(hist'.absent /\ <<undoStack, redoStack>>' # <<undoStack, redoStack>>)
       => /\ UNCHANGED <<layers, layerObj>>
          /\ lastOp' = "execute" =>
                /\ Len(undoStack') = Len(undoStack) + 1
                /\ LayerAbsent(undoStack'[Len(undoStack')], Doc)
          /\ lastOp' = "undo" =>
                /\ LayerAbsent(undoStack[Len(undoStack)], Doc)
                /\ undoStack' = SubSeq(undoStack, 1, Len(undoStack) - 1)
                /\ redoStack' = Append(redoStack, undoStack[Len(undoStack)])
                /\ ret' = TRUE
          /\ lastOp' = "redo" =>
                /\ LayerAbsent(redoStack[Len(redoStack)], Doc)
                /\ redoStack' = SubSeq(redoStack, 1, Len(redoStack) - 1)
                /\ undoStack' = Append(undoStack, redoStack[Len(redoStack)])
                /\ ret' = TRUE]_vars

\* a stroke on L1 was committed, L1 was then removed from the document, and
\* the stroke has been undone: the layer that took L1's place is untouched
AbsentLayerNoOpWitness ==
  /\ hist.absent /\ lastOp = "undo" /\ ret = TRUE
  /\ Len(redoStack) = 1 /\ redoStack[1].kind = "draw"
  /\ FindIndex(layers, redoStack[1].layerId) = -1
  /\ Len(layers) >= 1

\* C18: a step in which emitImmediate(event) has made onSync calls calls
\* every subscriber's onSync once, with that event, and leaves the pending
\* queue, the scheduled frame and the subscribers as they were; and the
\* frame that follows such a step delivers to every subscriber the
\* coalesced events that emit had queued before it
ImmediateBypassesQueue ==
  [][/\ (sync'.immediate # sync.immediate /\ sync'.immediate # NoImmediate)
        => /\ \A i \in DOMAIN subscribers :
                sync'.immediate.calls[i] = <<sync'.immediate.event>>
           /\ DOMAIN sync'.immediate.calls = DOMAIN subscribers
           /\ UNCHANGED <<pendingEvents, rafId, subscribers>>
           /\ sync'.delivered = sync.delivered
     /\ (sync.immediate # NoImmediate /\ ~sync.flushed /\ sync'.flushed)
        => /\ Len(pendingEvents) > 0 /\ pendingEvents' = <<>>
           /\ sync'.delivered =
                [i \in DOMAIN subscribers |-> coalesceEvents(pendingEvents)]]_vars

\* emitImmediate has called both subscribers while two events were queued
\* and a frame was scheduled
ImmediateBypassesQueueWitness ==
  /\ ~sync.flushed /\ sync.immediate.event = FullUpdate
  /\ DOMAIN sync.immediate.calls = SubscriberIds
  /\ Len(pendingEvents) = 2 /\ rafId = "live"

(***************************************************************************)
(* SpecPreview: one gesture of the hook with a tool that previews (line,   *)
(* gradient) or that never paints (selection, eyedropper).  For the last   *)
(* two the hook commits nothing: their results carry no original pixels;   *)
(* it passes the eyedropper's pickedColor to setPrimaryColor.              *)
(***************************************************************************)
PreviewTools == {"line", "gradient", "selection", "eyedropper"}
PreviewSettings ==
  {[DefaultSettings EXCEPT !.activeTool = id, !.primaryColor = Red,
                           !.secondaryColor = Blue, !.brushSize = b[1],
                           !.symmetryMode = b[2], !.paintTarget = t[1],
                           !.brushOpacity = t[2]] :
     id \in PreviewTools, b \in {<<1, "none">>, <<3, "both">>}, t \in TargetSettings}

InitPreview ==
  /\ DocumentInit("image", ModernHeight)
  /\ HistoryIdle(DefaultMaxMemory, FALSE)
  /\ SyncIdle /\ CompositeIdle /\ QueryIdle
  /\ cfg \in {c \in PreviewSettings :
                <<c.brushSize, c.symmetryMode>> \in BrushSettings(c.activeTool)}
  /\ tool = createToolState(<<0, 0, 0, 255>>)
  /\ gesture = GestureIdle
  /\ view = ViewIdle

\* context.compositeImageData || context.imageData, the store's composite
\* being null until updateComposite has run
SampleSources ==
  IF cfg.activeTool = "eyedropper" THEN {ActiveLayer, compositeImageData}
  ELSE {ActiveLayer}

\* onStart / onMove / onEnd of the selection tool and of the eyedropper
quietEvent(id, event, e, point, ctx, imageData) ==
  CASE id = "eyedropper" -> EyedropperEvent(e, point, ctx, imageData)
    [] event = "start" -> SelectionOnStart(e, point)
    [] event = "move" -> SelectionOnMove(e, point)
    [] OTHER -> SelectionOnEnd(e, point)

PreviewStart ==
  /\ Untouched
  /\ \E point \in Points, useSecondary \in BOOLEAN, imageData \in SampleSources :
       IF cfg.activeTool \in PaintingTools
       THEN handleStart(point, useSecondary, 0) /\ UNCHANGED cfg
       ELSE LET e == quietEvent(cfg.activeTool, "start",
                                [tool |-> reset(tool), layer |-> ActiveLayer,
                                 fault |-> FALSE],
                                point, getContext, imageData)
            IN /\ layerObj' = [layerObj EXCEPT ![cfg.activeLayerId] = e.layer]
               /\ tool' = e.tool
               /\ gesture' = [gesture EXCEPT !.activeToolRef = TRUE, !.phase = "drawing",
                                             !.useSecondary = useSecondary,
                                             !.before = ActiveLayer, !.after = ActiveLayer,
                                             !.fault = e.fault, !.returned = "result",
                                             !.call = "start", !.starts = @ + 1]
               /\ cfg' = IF cfg.activeTool = "eyedropper"
                         THEN [cfg EXCEPT !.primaryColor =
                                            sampleColor(point, getContext, imageData)]
                         ELSE cfg
  /\ UNCHANGED <<layers, usedIds, histVars, syncVars, query, composite, view>>

PreviewMove ==
  /\ gesture.phase = "drawing" /\ gesture.moves < MaxMoves
  /\ \E point \in Points, imageData \in SampleSources :
       IF cfg.activeTool \in PaintingTools
       THEN handleMove(point, gesture.useSecondary, 0)
       ELSE LET e == quietEvent(cfg.activeTool, "move",
                                [tool |-> tool, layer |-> ActiveLayer,
                                 fault |-> gesture.fault],
                                point, getContext, imageData)
            IN /\ layerObj' = [layerObj EXCEPT ![cfg.activeLayerId] = e.layer]
               /\ tool' = e.tool
               /\ gesture' = [gesture EXCEPT !.moves = @ + 1, !.fault = e.fault,
                                             !.returned = "result", !.call = "move"]
  /\ UNCHANGED <<layers, usedIds, histVars, syncVars, query, composite, cfg, view>>

PreviewEnd ==
  /\ gesture.phase = "drawing"
  /\ \E point \in Points, imageData \in SampleSources :
       IF cfg.activeTool \in PaintingTools
       THEN handleEnd(point) /\ UNCHANGED cfg
       ELSE LET e == quietEvent(cfg.activeTool, "end",
                                [tool |-> tool, layer |-> ActiveLayer,
                                 fault |-> gesture.fault],
                                point, getContext, imageData)
            IN /\ layerObj' = [layerObj EXCEPT ![cfg.activeLayerId] = e.layer]
               /\ tool' = e.tool
               /\ gesture' = [gesture EXCEPT !.activeToolRef = FALSE, !.phase = "ended",
                                             !.after = e.layer, !.fault = e.fault,
                                             !.returned = "result", !.call = "end"]
               /\ cfg' = IF cfg.activeTool = "eyedropper"
                         THEN [cfg EXCEPT !.primaryColor =
                                            sampleColor(point, getContext, imageData)]
                         ELSE cfg
               /\ UNCHANGED <<layers, usedIds, histVars, syncVars>>
  /\ UNCHANGED <<query, composite, view>>

NextPreview == PreviewStart \/ PreviewMove \/ PreviewEnd

SpecPreview == InitPreview /\ [][NextPreview]_vars

\* C19: while a line or gradient stroke is in progress (after onStart and
\* any onMove, before onEnd), and after every event of the selection tool
\* and of the eyedropper, the layer holds the pixels it held before the
\* gesture and the stroke's original and changed maps are empty
QuietUntilEnd ==
  (\/ cfg.activeTool \in {"line", "gradient"} /\ gesture.phase = "drawing"
   \/ cfg.activeTool \in {"selection", "eyedropper"} /\ gesture.phase # "idle")
    => /\ ActiveLayer = gesture.before
       /\ tool.originalPixels = <<>>
       /\ tool.changedPixels = <<>>

\* the line tool has previewed a line of several pixels after a move, and
\* the layer is as it was
QuietUntilEndWitness ==
  /\ cfg.activeTool = "line" /\ gesture.phase = "drawing" /\ gesture.moves = 1
  /\ Len(tool.previewPixels) > 3
  /\ ActiveLayer = gesture.before

\* C20: while a line or gradient stroke is in progress, every pixel of the
\* tool's preview is inside the canvas and valid for the paint target
PreviewConfined ==
  (cfg.activeTool \in {"line", "gradient"} /\ gesture.phase = "drawing") =>
    \A i \in 1..Len(tool.previewPixels) :
      /\ isInBounds(tool.previewPixels[i].x, tool.previewPixels[i].y,
                    TextureWidth, cfg.height)
      /\ isValidForPaintTarget(tool.previewPixels[i].x, tool.previewPixels[i].y,
                               cfg.paintTarget)

(***************************************************************************)
(* SpecReplace: the colour replacement tool on a decoded legacy picture,   *)
(* clicked on each tile colour, on a pixel outside every region and        *)
(* outside the canvas, with either colour and paint target                 *)
(***************************************************************************)
ReplacePoints ==
  {<<0, 8>>, <<1, 8>>, <<2, 8>>, <<0, 10>>, <<2, 10>>, <<32, 8>>, <<0, 0>>,
   <<64, 8>>, <<-1, 8>>}
ReplaceSettings ==
  {[DefaultSettings EXCEPT !.activeTool = "color-replacement", !.primaryColor = Red,
                           !.secondaryColor = Blue, !.height = LegacyHeight,
                           !.paintTarget = t[1],
                           !.brushOpacity = t[2]] :
     t \in {<<"base", <<1, 2>>>>, <<"overlay", <<1, 1>>>>}}

InitReplace ==
  /\ DocumentInit("image", LegacyHeight)
  /\ HistoryIdle(DefaultMaxMemory, FALSE)
  /\ SyncIdle /\ CompositeIdle /\ QueryIdle
  /\ cfg \in ReplaceSettings
  /\ tool = createToolState(<<0, 0, 0, 255>>)
  /\ gesture = GestureIdle
  /\ view = ViewIdle

ReplaceStart ==
  /\ Untouched
  /\ \E point \in ReplacePoints, useSecondary \in BOOLEAN :
       handleStart(point, useSecondary, 0)
  /\ UNCHANGED <<layers, usedIds, histVars, syncVars, query, composite, cfg, view>>

NextReplace == ReplaceStart \/ HandleMove \/ HandleEnd \/ StoreUndo \/ StoreRedo

SpecReplace == InitReplace /\ [][NextReplace]_vars

Replaced ==
  cfg.activeTool = "color-replacement" /\ gesture.phase = "drawing" /\ gesture.moves = 0

\* the pixels a replacement clicked at start has to repaint on the layer
\* before: every pixel of a base or overlay region whose four channels are
\* within 10 of the clicked pixel's
ReplaceRegion(before, start, targetColor, height) ==
  LET source == getPixel(start[1], start[2], before)
      near(c) == \A i \in 1..4 : c[i] - source[i] \in -10..10
  IN IF /\ isInBounds(start[1], start[2], TextureWidth, height)
        /\ (isBasePixel(start[1], start[2]) \/ isOverlayPixel(start[1], start[2]))
        /\ source[4] # 0
        /\ source # targetColor
     THEN {q \in Grid(height) :
             /\ isBasePixel(q[1], q[2]) \/ isOverlayPixel(q[1], q[2])
             /\ near(getPixel(q[1], q[2], before))}
     ELSE {}

\* C21: after ColorReplacementTool.onStart the repainted pixels are exactly
\* the pixels of the base and overlay regions that match the clicked colour
\* within tolerance 10 per channel, whatever the paint target and wherever
\* they lie, each blended once with the replacement colour, when the click
\* is in bounds, in a region, not fully transparent and not already of the
\* replacement colour; otherwise nothing is repainted; every other pixel
\* keeps its value
ReplaceExact ==
  Replaced =>
    LET targetColor == Chosen(getContext, gesture.useSecondary)
        region == ReplaceRegion(gesture.before, tool.startPoint, targetColor, cfg.height)
    IN /\ Painted = region
       /\ Len(tool.changedPixels) = Cardinality(region)
       /\ Differing(gesture.before, ActiveLayer) \subseteq region
       /\ \A p \in region :
            getPixel(p[1], p[2], ActiveLayer)
              = blendColors(getPixel(p[1], p[2], gesture.before), targetColor,
                            cfg.brushOpacity)

\* a click on the grey base pixel (0,8) with the overlay paint target
\* repainted the grey pixels of both regions, (1,8) of the slightly
\* different grey included, and left the transparent tile beside it alone
ReplaceExactWitness ==
  /\ Replaced
  /\ tool.startPoint = <<0, 8>> /\ cfg.paintTarget = "overlay"
  /\ cfg.brushOpacity = <<1, 1>> /\ ~gesture.useSecondary
  /\ {<<0, 8>>, <<1, 8>>, <<32, 8>>, <<40, 20>>} \subseteq Painted
  /\ <<2, 8>> \notin Painted
  /\ getPixel(32, 8, ActiveLayer) = Red /\ getPixel(1, 8, ActiveLayer) = Red
  /\ getPixel(2, 8, ActiveLayer) = Transparent

(***************************************************************************)
(* SpecGuard: gestures on a layer that executeCommand locks, unlocks or    *)
(* removes from the document at any moment, a gesture in progress included *)
(***************************************************************************)
MaxStarts == 1
MaxGuardCmds == 1
GuardSettings ==
  {[DefaultSettings EXCEPT !.activeTool = id, !.primaryColor = Red,
                           !.secondaryColor = Blue, !.paintTarget = "base",
                           !.brushOpacity = <<1, 2>>] :
     id \in {"pencil", "fill"}}

InitGuard ==
  /\ DocumentInit("image", ModernHeight)
  /\ HistoryIdle(DefaultMaxMemory, FALSE)
  /\ SyncIdle /\ CompositeIdle /\ QueryIdle
  /\ cfg \in GuardSettings
  /\ tool = createToolState(<<0, 0, 0, 255>>)
  /\ gesture = GestureIdle
  /\ view = ViewIdle

GuardExecute(command) ==
  /\ nextCmdId <= MaxGuardCmds
  /\ executeCommand(command, Doc)
  /\ nextCmdId' = nextCmdId + 1
  /\ UNCHANGED <<usedIds, query, composite, toolVars>>

GuardLock ==
  \E value \in BOOLEAN :
     GuardExecute(LayerPropertyCommand(nextCmdId, cfg.activeLayerId, "locked", value))
GuardRemove == GuardExecute(DeleteLayerCommand(nextCmdId, cfg.activeLayerId))

\* the handleStart calls that invoke a tool are counted
GuardStart ==
  /\ gesture.starts < MaxStarts \/ NoContextOrLocked
  /\ \E point \in Points : handleStart(point, FALSE, 0)
  /\ UNCHANGED <<layers, usedIds, histVars, syncVars, query, composite, cfg, view>>

NextGuard == GuardLock \/ GuardRemove \/ GuardStart \/ HandleMove \/ HandleEnd

SpecGuard == InitGuard /\ [][NextGuard]_vars

\* C22: a handleStart made while the document has no active layer, or while
\* the active layer is locked, returns null, does not invoke the tool (its
\* state is not reset, no stroke starts, the hook's active tool stays as it
\* was) and leaves the layers, their pixels and the history unchanged
LockedStartRejected ==
  [][(/\ gesture' # gesture /\ gesture'.call = "start"
      /\ (~HasActiveLayer \/ ActiveLayer.locked))
     => /\ gesture'.returned = "null"
        /\ gesture'.starts = gesture.starts
        /\ gesture'.activeToolRef = gesture.activeToolRef
        /\ UNCHANGED <<layers, layerObj, tool, histVars>>]_vars

\* a stroke was in progress when the layer was locked, and the handleStart
\* that followed was turned away
LockedStartRejectedWitness ==
  /\ gesture.call = "start" /\ gesture.returned = "null"
  /\ HasActiveLayer /\ ActiveLayer.locked
  /\ gesture.starts = 1 /\ gesture.activeToolRef
  /\ Len(tool.changedPixels) > 0

(***************************************************************************)
(* SpecDelete: documents of one to MaxLayerIds layers built with addLayer, *)
(* reordered with moveLayer, any layer made active, and deleteLayer called *)
(* with every identity.  lastOp names the store operation last called,     *)
(* deleteLayer together with its argument.                                 *)
(***************************************************************************)
Called(op) ==
  /\ lastOp' = op
  /\ UNCHANGED <<undoStack, redoStack, currentMemory, maxMemory, nextCmdId, ret, hist,
                 query, composite, tool, gesture, view>>

DeleteOp(layerId) == "deleteLayer " \o layerId

DeleteSetActive == \E l \in StorePool : setActiveLayer(l) /\ Called("setActiveLayer")
DeleteAdd == CanQueue /\ HasFresh /\ addLayer /\ Called("addLayer")
DeleteMove ==
  CanQueue /\ \E l \in StorePool, direction \in {"up", "down"} :
                 moveLayer(l, direction) /\ Called("moveLayer")
DeleteNamed == CanQueue /\ \E l \in StorePool : deleteLayer(l) /\ Called(DeleteOp(l))
DeleteTick == FrameTick /\ Called("frame") /\ UNCHANGED <<docVars, cfg>>

NextDelete == DeleteSetActive \/ DeleteAdd \/ DeleteMove \/ DeleteNamed \/ DeleteTick

SpecDelete == InitLayers /\ [][NextDelete]_vars

\* the list without its item at position i (1-based)
Without(ls, i) == [j \in 1..(Len(ls) - 1) |-> IF j < i THEN ls[j] ELSE ls[j + 1]]

\* C23: deleteLayer(l) on a document with one layer changes nothing; on a
\* larger document it removes l and nothing else, keeping the order of the
\* other layers and every layer's pixels; when l was the active layer, at
\* index i, the layer that was at index i-1 becomes active, or the layer
\* that was at index 1 (the new bottom) when i = 0; when l was not the
\* active layer, or is not in the document, activeLayerId stays
DeleteLayerContract ==
  [][\A l \in StorePool :
       lastOp' = DeleteOp(l) =>
         /\ layerObj' = layerObj
         /\ IF Len(layers) <= 1 \/ \A i \in 1..Len(layers) : layers[i] # l
            THEN layers' = layers /\ cfg' = cfg /\ pendingEvents' = pendingEvents
            ELSE \E i \in 1..Len(layers) :
                   /\ layers[i] = l
                   /\ layers' = Without(layers, i)
                   /\ cfg'.activeLayerId =
                        IF cfg.activeLayerId # l THEN cfg.activeLayerId
                        ELSE IF i = 1 THEN layers[2] ELSE layers[i - 1]]_vars

\* L2, between L1 and L3, has been deleted and L1, the layer below it, is
\* active
DeleteLayerContractWitness ==
  /\ lastOp = DeleteOp("L2")
  /\ layers = <<"L1", "L3">> /\ usedIds = {"L1", "L2", "L3"}
  /\ cfg.activeLayerId = "L1"

(***************************************************************************)
(* The store's requestCompositeUpdate.  The browser runs, in an animation  *)
(* frame, every callback scheduled since the frame before.                 *)
(***************************************************************************)
\* a requester that schedules a callback at every call
requestCompositeUpdateEveryCall ==
  composite' = [composite EXCEPT !.rafId = "live", !.scheduled = @ + 1,
                                 !.requests = @ + 1]

\* if (rafId !== null) return; rafId = requestAnimationFrame(callback)
requestCompositeUpdate ==
  composite' = IF composite.rafId # "null"
               THEN [composite EXCEPT !.requests = @ + 1]
               ELSE [composite EXCEPT !.rafId = "live", !.scheduled = @ + 1,
                                      !.requests = @ + 1]

\* the frame's run of the scheduled callbacks: rafId = null and
\* updateComposite(), once per callback
CompositeCallbacks ==
  composite' = [rafId |-> IF composite.scheduled > 0 THEN "null" ELSE composite.rafId,
                scheduled |-> 0, requests |-> 0, served |-> composite.requests,
                updates |-> composite.updates + composite.scheduled,
                frames |-> composite.frames + 1]

(***************************************************************************)
(* SpecComposite: composite updates requested and full-update events       *)
(* emitted between animation frames; a frame runs the requester's callback *)
(* and the synchronization manager's, whichever are scheduled              *)
(***************************************************************************)
MaxRequests == 3
MaxFrames == 3

CompositeRequest ==
  /\ composite.requests < MaxRequests
  /\ requestCompositeUpdate
  /\ UNCHANGED <<docVars, histVars, syncVars, query, toolVars>>

CompositeEmit ==
  /\ CanQueue
  /\ Emit(FullUpdate)
  /\ UNCHANGED <<docVars, histVars, query, composite, toolVars>>

AnimationFrame ==
  /\ composite.frames < MaxFrames
  /\ CompositeCallbacks
  /\ IF rafId = "live" THEN FrameTick ELSE UNCHANGED syncVars
  /\ UNCHANGED <<docVars, histVars, query, toolVars>>

InitComposite ==
  /\ DocumentInit("skin", ModernHeight)
  /\ HistoryIdle(DefaultMaxMemory, FALSE)
  /\ SyncIdle /\ CompositeIdle /\ QueryIdle /\ ToolsIdle

NextComposite == CompositeRequest \/ CompositeEmit \/ AnimationFrame

SpecComposite == InitComposite /\ [][NextComposite]_vars

\* C24: a requestCompositeUpdate call makes no updateComposite itself and
\* leaves a callback scheduled; the animation frame that follows one or more
\* calls makes exactly one updateComposite, a frame that follows none makes
\* none, and after a frame nothing is scheduled, so that the next call
\* schedules again
CompositeCoalesced ==
  [][/\ composite'.requests = composite.requests + 1
        => /\ composite'.updates = composite.updates
           /\ composite'.rafId = "live" /\ composite'.scheduled = 1
     /\ composite'.frames = composite.frames + 1
        => /\ composite'.updates =
                composite.updates + (IF composite.requests > 0 THEN 1 ELSE 0)
           /\ composite'.rafId = "null" /\ composite'.scheduled = 0]_vars

\* the second frame found three calls made since the first and made the
\* second updateComposite
CompositeCoalescedWitness ==
  /\ composite.frames = 2 /\ composite.updates = 2
  /\ composite.served = 3 /\ composite.requests = 0 /\ composite.rafId = "null"

(***************************************************************************)
(* SpecLine: bresenhamLine called with every pair of end points whose      *)
(* coordinates lie in -MaxCoord..MaxCoord, its loop run an iteration at a  *)
(* time.  The loop is not interrupted: an iteration that can run does run. *)
(***************************************************************************)
MaxCoord == 3
Coords == -MaxCoord..MaxCoord

InitLine ==
  /\ DocumentInit("skin", ModernHeight)
  /\ HistoryIdle(DefaultMaxMemory, FALSE)
  /\ SyncIdle /\ CompositeIdle /\ ToolsIdle
  /\ \E x0 \in Coords, y0 \in Coords, x1 \in Coords, y1 \in Coords :
       query = BresenhamEntry(x0, y0, x1, y1)

LineIterate ==
  /\ ~query.done
  /\ query' = BresenhamIteration(query)
  /\ UNCHANGED <<docVars, histVars, syncVars, composite, toolVars>>

NextLine == LineIterate

SpecLine == InitLine /\ [][NextLine]_vars /\ WF_vars(NextLine)

\* C25: for all integer end points the loop of bresenhamLine ends, and the
\* list it returns starts with (x0,y0), ends with (x1,y1) and is the single
\* point when the two are equal
BresenhamEndpoints ==
  /\ <>query.done
  /\ [](query.done =>
         /\ Len(query.points) >= 1
         /\ query.points[1] = <<query.x0, query.y0>>
         /\ query.points[Len(query.points)] = <<query.x1, query.y1>>
         /\ (<<query.x0, query.y0>> = <<query.x1, query.y1>> => Len(query.points) = 1)
         /\ query.points = bresenhamLine(query.x0, query.y0, query.x1, query.y1))

\* the line from (-2,1) to (3,-1) has been returned: six points
BresenhamEndpointsWitness ==
  /\ query.done
  /\ <<query.x0, query.y0>> = <<-2, 1>> /\ <<query.x1, query.y1>> = <<3, -1>>
  /\ Len(query.points) = 6

(***************************************************************************)
(* SpecSymmetry: applySymmetry called with points on, beside and outside   *)
(* the canvas, in each mode, on a modern and on a legacy canvas            *)
(***************************************************************************)
SymmetryCoords == {-1, 0, 5, 15, 16, 31, 32, 63, 64}
SymmetryModes == {"none", "horizontal", "vertical", "both"}

InitSymmetry ==
  /\ DocumentInit("skin", ModernHeight)
  /\ HistoryIdle(DefaultMaxMemory, FALSE)
  /\ SyncIdle /\ CompositeIdle /\ ToolsIdle
  /\ \E x \in SymmetryCoords, y \in SymmetryCoords, mode \in SymmetryModes,
        height \in {ModernHeight, LegacyHeight} :
       query = [point |-> <<x, y>>, mode |-> mode, width |-> TextureWidth,
                height |-> height, asked |-> FALSE, points |-> <<>>]

ApplySymmetry ==
  /\ ~query.asked
  /\ query' = [query EXCEPT !.asked = TRUE,
                            !.points = applySymmetry(query.point, query.mode,
                                                     query.width, query.height)]
  /\ UNCHANGED <<docVars, histVars, syncVars, composite, toolVars>>

NextSymmetry == ApplySymmetry

SpecSymmetry == InitSymmetry /\ [][NextSymmetry]_vars

\* the mirrors of a w x h canvas: x -> w-1-x, y -> h-1-y, and both
MirrorX(p, w, h) == <<w - 1 - p[1], p[2]>>
MirrorY(p, w, h) == <<p[1], h - 1 - p[2]>>
MirrorXY(p, w, h) == <<w - 1 - p[1], h - 1 - p[2]>>

\* C26: applySymmetry(p, mode, w, h) returns 1 point for none, 2 for
\* horizontal, 2 for vertical and 4 for both; the first is p; every other
\* one is the image of p under one of the three mirrors, and that mirror
\* applied to it gives p back
SymmetryPoints ==
  query.asked =>
    LET p == query.point
        w == query.width
        h == query.height
        pts == query.points
    IN /\ Len(pts) = (CASE query.mode = "none" -> 1
                         [] query.mode = "horizontal" -> 2
                         [] query.mode = "vertical" -> 2
                         [] query.mode = "both" -> 4)
       /\ pts[1] = p
       /\ \A i \in 2..Len(pts) :
            \/ pts[i] = MirrorX(p, w, h) /\ MirrorX(pts[i], w, h) = p
            \/ pts[i] = MirrorY(p, w, h) /\ MirrorY(pts[i], w, h) = p
            \/ pts[i] = MirrorXY(p, w, h) /\ MirrorXY(pts[i], w, h) = p

\* (5,15) on the legacy canvas in mode both: itself and its three mirrors
SymmetryPointsWitness ==
  /\ query.asked /\ query.mode = "both" /\ query.height = LegacyHeight
  /\ query.points = << <<5, 15>>, <<58, 15>>, <<5, 16>>, <<58, 16>> >>

(***************************************************************************)
(* SpecSelection: the selection tool's onStart, onMove, onEnd and reset in *)
(* any order, onStart after the reset the hook gives it.  query keeps the  *)
(* last call, whether a stroke was in progress when it was made, the point *)
(* the stroke started at, the point passed and the selection returned.     *)
(***************************************************************************)
SelectionPoints == {<<x, y>> : x \in {-1, 0, 3, 63}, y \in {0, 2, 63}}

SelectionEnv == [tool |-> tool, layer |-> ActiveLayer, fault |-> FALSE]

InitSelection ==
  /\ DocumentInit("skin", ModernHeight)
  /\ HistoryIdle(DefaultMaxMemory, FALSE)
  /\ SyncIdle /\ CompositeIdle
  /\ query = [call |-> "none", stroke |-> FALSE, p0 |-> <<>>, p1 |-> <<>>,
              selection |-> <<>>]
  /\ cfg = [DefaultSettings EXCEPT !.activeTool = "selection"]
  /\ tool = createToolState(<<0, 0, 0, 255>>)
  /\ gesture = GestureIdle
  /\ view = ViewIdle

SelectionStart ==
  /\ \E point \in SelectionPoints :
       /\ tool' = SelectionOnStart([SelectionEnv EXCEPT !.tool = reset(tool)], point).tool
       /\ query' = [call |-> "start", stroke |-> TRUE, p0 |-> point, p1 |-> point,
                    selection |-> <<>>]
  /\ UNCHANGED <<docVars, histVars, syncVars, composite, cfg, gesture, view>>

SelectionMove ==
  /\ \E point \in SelectionPoints :
       /\ tool' = SelectionOnMove(SelectionEnv, point).tool
       /\ query' = [query EXCEPT !.call = "move", !.p1 = point, !.selection = <<>>]
  /\ UNCHANGED <<docVars, histVars, syncVars, composite, cfg, gesture, view>>

SelectionEnd ==
  /\ \E point \in SelectionPoints :
       /\ tool' = SelectionOnEnd(SelectionEnv, point).tool
       /\ query' = [query EXCEPT !.call = "end", !.stroke = FALSE, !.p1 = point,
                                 !.selection = SelectionOnEndSelection(SelectionEnv, point)]
  /\ UNCHANGED <<docVars, histVars, syncVars, composite, cfg, gesture, view>>

SelectionReset ==
  /\ tool' = reset(tool)
  /\ query' = [query EXCEPT !.call = "reset", !.stroke = FALSE, !.selection = <<>>]
  /\ UNCHANGED <<docVars, histVars, syncVars, composite, cfg, gesture, view>>

NextSelection == SelectionStart \/ SelectionMove \/ SelectionEnd \/ SelectionReset

SpecSelection == InitSelection /\ [][NextSelection]_vars

\* C27: onEnd at p1 of a drag started at p0 returns the rectangle selection
\* with x = min(x0,x1), y = min(y0,y1), width = |x1-x0|+1 and height =
\* |y1-y0|+1, both at least 1; it returns a null selection only when no
\* stroke was in progress
SelectionRectangle ==
  [][(query'.call = "end" /\ query' # query) =>
       LET p0 == query.p0
           p1 == query'.p1
       IN /\ query.stroke =>
               /\ query'.selection =
                    <<[type |-> "rectangle",
                       bounds |-> [x |-> Min(p0[1], p1[1]), y |-> Min(p0[2], p1[2]),
                                   width |-> Abs(p1[1] - p0[1]) + 1,
                                   height |-> Abs(p1[2] - p0[2]) + 1]]>>
               /\ query'.selection[1].bounds.width >= 1
               /\ query'.selection[1].bounds.height >= 1
          /\ query'.selection = <<>> => ~query.stroke]_vars

\* a click without movement at (3,2) has returned the 1 x 1 selection there
SelectionRectangleWitness ==
  /\ query.call = "end" /\ query.p0 = <<3, 2>> /\ query.p1 = <<3, 2>>
  /\ query.selection = <<[type |-> "rectangle",
                          bounds |-> [x |-> 3, y |-> 2, width |-> 1, height |-> 1]]>>
  /\ ~tool.isActive

(***************************************************************************)
(* SpecDocument: createSkinDocument called with every combination of the   *)
(* options, given or left out, before and after Steve's skin has loaded    *)
(***************************************************************************)
DocumentOptions ==
  [name : {"default", "Mine"}, format : {"default", "modern", "legacy"},
   model : {"default", "classic", "slim"},
   useSteveSkin : {"default", "true", "false"}]

InitDocument ==
  /\ DocumentInit("skin", ModernHeight)
  /\ HistoryIdle(DefaultMaxMemory, FALSE)
  /\ SyncIdle /\ CompositeIdle /\ ToolsIdle
  /\ \E options \in DocumentOptions, steveSkin \in {"image", "blank"} :
       query = [options |-> options, steveSkin |-> steveSkin, asked |-> FALSE,
                document |-> <<>>]

CreateDocument ==
  /\ ~query.asked
  /\ \E id \in LayerPool :
       query' = [query EXCEPT !.asked = TRUE,
                   !.document = createSkinDocument(query.options, query.steveSkin, id)]
  /\ UNCHANGED <<docVars, histVars, syncVars, composite, toolVars>>

NextDocument == CreateDocument

SpecDocument == InitDocument /\ [][NextDocument]_vars

\* C28: a document created with useSteveSkin false, or in the legacy format,
\* has exactly one layer; each of its pixels is [180,180,180,255] if it is
\* a base-region pixel and [0,0,0,0] if it is not; activeLayerId is that
\* layer's id; width is 64, and height is 64 for modern and 32 for legacy
FlatDocument ==
  (query.asked /\ (query.options.useSteveSkin = "false"
                   \/ query.options.format = "legacy")) =>
    LET document == query.document
        layer == document.layers[1]
        height == IF query.options.format = "legacy" THEN 32 ELSE 64
    IN /\ Len(document.layers) = 1
       /\ document.activeLayerId = layer.id
       /\ document.width = 64 /\ document.height = height
       /\ DOMAIN layer.data = 0..(64 * height - 1)
       /\ \A x \in 0..63, y \in 0..(height - 1) :
            /\ layer.data[y * 64 + x] \in {<<180, 180, 180, 255>>, <<0, 0, 0, 0>>}
            /\ layer.data[y * 64 + x] = <<180, 180, 180, 255>> <=> isBasePixel(x, y)
            /\ isOverlayPixel(x, y) => layer.data[y * 64 + x] = <<0, 0, 0, 0>>

\* a legacy document made while useSteveSkin was left at its default: 32
\* rows, grey on the head base and transparent on the head overlay
FlatDocumentWitness ==
  /\ query.asked /\ query.options.format = "legacy"
  /\ query.options.useSteveSkin = "default"
  /\ query.document.height = 32
  /\ query.document.layers[1].data[8 * 64 + 0] = <<180, 180, 180, 255>>
  /\ query.document.layers[1].data[8 * 64 + 32] = <<0, 0, 0, 0>>
  /\ query.document.activeLayerId = "L2"

(***************************************************************************)
(* SpecBlend: blendColors asked about a base, an overlay and an opacity,   *)
(* and one pencil gesture on a decoded picture whose primary colour and    *)
(* brush opacity are that overlay and that opacity                         *)
(***************************************************************************)
BlendBases ==
  {Transparent, DEFAULT_SKIN_COLOR, Blue, <<255, 255, 255, 1>>, <<0, 0, 0, 255>>,
   <<200, 40, 40, 254>>}
BlendOverlays ==
  {Red, Blue, Transparent, <<0, 0, 0, 255>>, <<255, 255, 255, 255>>, <<1, 127, 254, 255>>,
   <<1, 127, 254, 254>>}
BlendOpacities == {<<1, 1>>, <<1, 2>>, <<0, 1>>}

InitBlend ==
  /\ DocumentInit("image", ModernHeight)
  /\ HistoryIdle(DefaultMaxMemory, FALSE)
  /\ SyncIdle /\ CompositeIdle
  /\ \E base \in BlendBases, overlay \in BlendOverlays, opacity \in BlendOpacities :
       /\ query = [base |-> base, overlay |-> overlay, opacity |-> opacity,
                   asked |-> FALSE, result |-> Transparent]
       /\ \E paintTarget \in {"base", "overlay"} :
            cfg = [DefaultSettings EXCEPT !.activeTool = "pencil",
                                          !.primaryColor = overlay,
                                          !.secondaryColor = Blue,
                                          !.brushOpacity = opacity,
                                          !.paintTarget = paintTarget]
  /\ tool = createToolState(<<0, 0, 0, 255>>)
  /\ gesture = GestureIdle
  /\ view = ViewIdle

BlendAsk ==
  /\ ~query.asked
  /\ query' = [query EXCEPT !.asked = TRUE,
                            !.result = blendColors(query.base, query.overlay,
                                                   query.opacity)]
  /\ UNCHANGED <<docVars, histVars, syncVars, composite, toolVars>>

BlendStart ==
  /\ gesture.phase = "idle"
  /\ \E point \in Points, useSecondary \in BOOLEAN : handleStart(point, useSecondary, 0)
  /\ UNCHANGED <<layers, usedIds, histVars, syncVars, query, composite, cfg, view>>

NextBlend == BlendAsk \/ BlendStart \/ HandleMove \/ HandleEnd

SpecBlend == InitBlend /\ [][NextBlend]_vars

\* C29: blendColors(base, overlay, 1) with overlay alpha 255 is the overlay,
\* whatever the base; so after a pencil touch with a colour of alpha 255
\* and brush opacity 1 every pixel the touch changed, the touched one
\* among them when the target allows it, holds exactly that colour
OpaqueBlendReplaces ==
  /\ (query.asked /\ query.overlay[4] = 255 /\ query.opacity = <<1, 1>>)
       => query.result = query.overlay
  /\ (/\ gesture.call = "start" /\ gesture.returned = "result"
      /\ Chosen(getContext, gesture.useSecondary)[4] = 255
      /\ cfg.brushOpacity = <<1, 1>>)
       => /\ \A i \in 1..Len(tool.changedPixels) :
               /\ tool.changedPixels[i].color = Chosen(getContext, gesture.useSecondary)
               /\ ReadIndex(ActiveLayer, PixelIndex(tool.changedPixels[i].x,
                                                    tool.changedPixels[i].y))
                    = Chosen(getContext, gesture.useSecondary)
          /\ (/\ isInBounds(tool.startPoint[1], tool.startPoint[2],
                            TextureWidth, cfg.height)
              /\ isValidForPaintTarget(tool.startPoint[1], tool.startPoint[2],
                                       cfg.paintTarget))
               => tool.startPoint \in Painted

\* the half-transparent blue at (2,31) has become the opaque primary colour,
\* and blendColors has answered with the overlay over a base of alpha 254
OpaqueBlendReplacesWitness ==
  /\ query.asked /\ query.base = <<200, 40, 40, 254>>
  /\ query.overlay = <<1, 127, 254, 255>> /\ query.opacity = <<1, 1>>
  /\ query.result = <<1, 127, 254, 255>>
  /\ gesture.call = "start" /\ ~gesture.useSecondary
  /\ tool.startPoint = <<2, 31>>
  /\ ReadIndex(gesture.before, PixelIndex(2, 31)) = Blue
  /\ ReadIndex(ActiveLayer, PixelIndex(2, 31)) = <<1, 127, 254, 255>>

(***************************************************************************)
(* SpecSession: the hook's handleStart, handleMove, handleEnd and          *)
(* cancelTool called in any order on one unlocked layer, a handleStart or  *)
(* a cancelTool in the middle of a stroke included, with the store's undo  *)
(* and redo between strokes                                                *)
(***************************************************************************)
MaxSessionStarts == 2

SessionSettings ==
  {[DefaultSettings EXCEPT !.activeTool = id, !.primaryColor = Red,
                           !.secondaryColor = Blue, !.paintTarget = "base",
                           !.brushOpacity = <<1, 2>>] :
     id \in {"pencil", "line", "fill"}}

SessionOriginal == NewLayer("image", ModernHeight)

InitSession ==
  /\ DocumentInit("image", ModernHeight)
  /\ HistoryIdle(DefaultMaxMemory, FALSE)
  /\ SyncIdle /\ CompositeIdle /\ QueryIdle
  /\ cfg \in SessionSettings
  /\ tool = createToolState(<<0, 0, 0, 255>>)
  /\ gesture = GestureIdle
  /\ view = ViewIdle

SessionStart ==
  /\ gesture.starts < MaxSessionStarts
  /\ \E point \in Points : handleStart(point, FALSE, 0)
  /\ UNCHANGED <<layers, usedIds, histVars, syncVars, query, composite, cfg, view>>

SessionCancel ==
  /\ cancelTool
  /\ UNCHANGED <<docVars, histVars, syncVars, query, composite, cfg, view>>

NextSession ==
  SessionStart \/ HandleMove \/ HandleEnd \/ SessionCancel \/ StoreUndo \/ StoreRedo

SpecSession == InitSession /\ [][NextSession]_vars

\* C30: every pixel change a tool makes is covered by history: whenever no
\* stroke is in progress and nothing is left to undo, the layer holds the
\* pixels it held before the first gesture
SessionCovered ==
  (~gesture.activeToolRef /\ undoStack = <<>>) =>
    \A x \in 0..(TextureWidth - 1), y \in 0..(ModernHeight - 1) :
      ReadIndex(ActiveLayer, PixelIndex(x, y)) = ReadIndex(SessionOriginal, PixelIndex(x, y))

(***************************************************************************)
(* SpecMemory: execute, undo, redo and clear of a HistoryManager built     *)
(* with the default ceiling or with one that holds a single layer command, *)
(* the commands aimed at layers in the document and at layers not in it    *)
(***************************************************************************)
MaxMemoryExec == 3
\* room for one layer command and two small ones
OneLayerCeiling ==
  DataLength(NewLayer("blank", ModernHeight)) + LayerOverhead + 2 * SmallCommandSize

InitMemory ==
  /\ DocumentInit("skin", ModernHeight)
  /\ \E ceiling \in {DefaultMaxMemory, OneLayerCeiling} : HistoryIdle(ceiling, FALSE)
  /\ SyncIdle /\ CompositeIdle /\ QueryIdle /\ ToolsIdle

MemoryRecord(command, created) ==
  /\ nextCmdId <= MaxMemoryExec
  /\ HistoryExecute(command)
  /\ nextCmdId' = nextCmdId + 1
  /\ usedIds' = usedIds \cup created
  /\ UNCHANGED <<syncVars, query, composite, toolVars>>

MemoryDraw ==
  \E l \in LayerPool : MemoryRecord(StrokeCommand(nextCmdId, Doc, l, <<P1, P2>>, Blue), {})

MemoryCreate ==
  /\ LayerPool \ usedIds # {}
  /\ MemoryRecord(CreateLayerCommand(nextCmdId, FreshLayer, Len(layers)), {FreshLayer})

MemoryDelete ==
  \E l \in LayerPool : MemoryRecord(DeleteLayerCommand(nextCmdId, l), {})

MemoryProperty ==
  \E l \in Range(layers) :
    MemoryRecord(LayerPropertyCommand(nextCmdId, l, "visible", FALSE), {})

MemoryComposite ==
  \E l \in LayerPool :
    MemoryRecord(CompositeCommand(nextCmdId,
                   <<DeleteLayerCommand(0, l), StrokeCommand(0, Doc, l, <<P1>>, Red)>>), {})

MemoryClear ==
  /\ HistoryClear
  /\ UNCHANGED <<docVars, nextCmdId, syncVars, query, composite, toolVars>>

NextMemory ==
  \/ MemoryDraw \/ MemoryCreate \/ MemoryDelete \/ MemoryProperty \/ MemoryComposite
  \/ Undo \/ Redo \/ MemoryClear

SpecMemory == InitMemory /\ [][NextMemory]_vars

\* C31: getMemoryUsage() is the sum of getMemorySize() over the commands on
\* the undo and redo stacks and is never negative; undo and redo leave it
\* unchanged and clear sets it to 0
MemoryAccounted ==
  [][/\ currentMemory' = SumMemory(undoStack', 1, layerObj')
                          + SumMemory(redoStack', 1, layerObj')
     /\ currentMemory' >= 0
     /\ lastOp' \in {"undo", "redo"} => currentMemory' = currentMemory
     /\ lastOp' = "clear" => currentMemory' = 0]_vars

\* a delete that found its layer and a draw are on the undo stack, a create
\* was undone: the counter is the three sizes together
MemoryAccountedWitness ==
  /\ lastOp = "undo" /\ Len(undoStack) = 2 /\ Len(redoStack) = 1
  /\ undoStack[1].kind = "delete" /\ undoStack[1].hasDeleted
  /\ undoStack[2].kind = "draw" /\ redoStack[1].kind = "create"
  /\ currentMemory = (16384 + 200) + 48 + (16384 + 200)

(***************************************************************************)
(* SpecDispose: subscribe, unsubscribe, emit, emitImmediate, dispose and   *)
(* frame ticks in any order, the subscribers emitting from inside onSync   *)
(***************************************************************************)
DisposeEvents == {FullUpdate, LayerChange("L1")}
\* what the subscribers emit from inside the onSync calls of one delivery
InsideEmits == IF DOMAIN subscribers = {} THEN {<<>>} ELSE {<<>>, <<LayerChange("L1")>>}

DisposeEmit ==
  /\ Len(pendingEvents) < MaxPending
  /\ \E e \in DisposeEvents : Emit(e) /\ Rest

DisposeEmitImmediate ==
  /\ Len(pendingEvents) < MaxPending
  /\ \E inside \in InsideEmits : emitImmediateEmitting(FullUpdate, inside) /\ Rest

DisposeTick == \E inside \in InsideEmits : FrameTickEmitting(inside) /\ Rest

Dispose == dispose /\ Rest

NextDispose ==
  \/ SyncSubscribe \/ SyncUnsubscribe \/ DisposeEmit \/ DisposeEmitImmediate
  \/ DisposeTick \/ Dispose

SpecDispose == InitSync /\ [][NextDispose]_vars

\* C32: whenever the pending queue is not empty, an animation-frame flush
\* that has not been cancelled is scheduled
QueueHasFlush == Len(pendingEvents) > 0 => rafId = "live"

(***************************************************************************)
(* SpecInterleave: pencil strokes through the hook, each ended by          *)
(* handleEnd before the next starts, with the store's undo and redo (the   *)
(* keyboard shortcuts) at any moment, between handleStart and handleEnd    *)
(* included                                                                *)
(***************************************************************************)
InitInterleave ==
  /\ DocumentInit("image", ModernHeight)
  /\ HistoryIdle(DefaultMaxMemory, FALSE)
  /\ SyncIdle /\ CompositeIdle /\ QueryIdle
  /\ cfg \in {c \in SessionSettings : c.activeTool = "pencil"}
  /\ tool = createToolState(<<0, 0, 0, 255>>)
  /\ gesture = GestureIdle
  /\ view = ViewIdle

InterleaveStart ==
  /\ gesture.phase # "drawing" /\ gesture.starts < MaxSessionStarts
  /\ \E point \in Points : handleStart(point, FALSE, 0)
  /\ UNCHANGED <<layers, usedIds, histVars, syncVars, query, composite, cfg, view>>

\* undo() / redo() of the store, at any moment
KeyUndo ==
  /\ HistoryUndo
  /\ emitImmediate(FullUpdate)
  /\ UNCHANGED <<nextCmdId, usedIds, query, composite, toolVars>>

KeyRedo ==
  /\ HistoryRedo
  /\ emitImmediate(FullUpdate)
  /\ UNCHANGED <<nextCmdId, usedIds, query, composite, toolVars>>

NextInterleave == InterleaveStart \/ HandleMove \/ HandleEnd \/ KeyUndo \/ KeyRedo

SpecInterleave == InitInterleave /\ [][NextInterleave]_vars

\* C33: with undo and redo allowed during a stroke, whenever no stroke is
\* in progress and nothing is left to undo, the layer holds the pixels it
\* had before the first command was recorded
InterleavedUndoRestores ==
  (gesture.phase # "drawing" /\ undoStack = <<>>) =>
    \A x \in 0..(TextureWidth - 1), y \in 0..(ModernHeight - 1) :
      ReadIndex(ActiveLayer, PixelIndex(x, y)) = ReadIndex(SessionOriginal, PixelIndex(x, y))

(***************************************************************************)
(* SpecSwitch: one pencil stroke started on the only layer of a document,  *)
(* with setActiveLayer, addLayer and duplicateLayer of the store called    *)
(* between handleStart and handleEnd, then undo and redo                   *)
(***************************************************************************)
SwitchStart ==
  /\ gesture.phase = "idle"
  /\ \E point \in Points : handleStart(point, FALSE, 0)
  /\ UNCHANGED <<layers, usedIds, histVars, syncVars, query, composite, cfg, view>>

SwitchActive ==
  /\ gesture.phase = "drawing"
  /\ \E l \in LayerPool : setActiveLayer(l) /\ Steady

SwitchAdd == gesture.phase = "drawing" /\ HasFresh /\ addLayer /\ Steady

SwitchDuplicate ==
  /\ gesture.phase = "drawing" /\ HasFresh
  /\ \E l \in Range(layers) : duplicateLayer(l) /\ Steady

NextSwitch ==
  \/ SwitchStart \/ SwitchActive \/ SwitchAdd \/ SwitchDuplicate
  \/ HandleMove \/ HandleEnd \/ StoreUndo \/ StoreRedo

SpecSwitch == InitInterleave /\ [][NextSwitch]_vars

\* C34: the command handleEnd commits targets the layer the stroke started
\* on, whose buffer it painted, and once that command is undone that layer
\* and every layer added during the stroke hold their pre-stroke pixels
StrokeKeepsLayer ==
  /\ (gesture.committed /\ undoStack # <<>>) => undoStack[Len(undoStack)].layerId = "L1"
  /\ (gesture.phase = "ended" /\ undoStack = <<>>) =>
       /\ Differing(layerObj["L1"], SessionOriginal) = {}
       /\ \A l \in Range(layers) : layerObj[l].base = "blank" => layerObj[l].px = <<>>

(***************************************************************************)
(* SpecNewDocument: draw commands executed, undone and redone through the  *)
(* store, the document replaced by newDocument or loadSkin at any moment,  *)
(* and more commands, undos and redos on the new document                  *)
(***************************************************************************)
NewDocumentDraw ==
  /\ nextCmdId <= MaxExec
  /\ \E shape \in {<<<<P1>>, Red>>, <<<<P1, P2>>, Blue>>} :
       executeCommand(StrokeCommand(nextCmdId, Doc, cfg.activeLayerId, shape[1], shape[2]),
                      Doc)
  /\ nextCmdId' = nextCmdId + 1
  /\ UNCHANGED <<usedIds, query, composite, toolVars>>

NewDocumentUndo ==
  /\ HistoryUndo
  /\ emitImmediate(FullUpdate)
  /\ UNCHANGED <<nextCmdId, usedIds, query, composite, toolVars>>

NewDocumentRedo ==
  /\ HistoryRedo
  /\ emitImmediate(FullUpdate)
  /\ UNCHANGED <<nextCmdId, usedIds, query, composite, toolVars>>

NewDocument ==
  /\ LayerPool \ usedIds # {}
  /\ \E format \in {"modern", "legacy"}, useSteveSkin \in BOOLEAN,
        steveSkin \in {"image", "blank"} :
       newDocument(format, useSteveSkin, steveSkin)
  /\ UNCHANGED <<query, composite, tool, gesture, view>>

NewDocumentLoad ==
  /\ LayerPool \ usedIds # {}
  /\ \E imageHeight \in {LegacyHeight, ModernHeight}, format \in {"modern", "legacy"} :
       loadSkin(imageHeight, format)
  /\ UNCHANGED <<query, composite, tool, gesture, view>>

NextNewDocument ==
  NewDocumentDraw \/ NewDocumentUndo \/ NewDocumentRedo \/ NewDocument \/ NewDocumentLoad

SpecNewDocument == InitHistory /\ [][NextNewDocument]_vars

\* C35: newDocument and loadSkin leave both stacks empty and the memory
\* counter at 0, so canUndo and canRedo are false; an undo or redo right
\* after them changes nothing, and no command on either stack is aimed at a
\* layer of the document that was replaced
ReplacedDocumentHistory ==
  [][/\ lastOp' = "clear" =>
          /\ undoStack' = <<>> /\ redoStack' = <<>> /\ currentMemory' = 0
          /\ ~GetState'.canUndo /\ ~GetState'.canRedo
     /\ (lastOp = "clear" /\ lastOp' \in {"undo", "redo"}) =>
          /\ ~ret'
          /\ UNCHANGED <<layers, layerObj, undoStack, redoStack>>
     /\ \A i \in 1..Len(undoStack') : undoStack'[i].layerId \in Range(layers')
     /\ \A i \in 1..Len(redoStack') : redoStack'[i].layerId \in Range(layers')]_vars

\* two commands were recorded on the first document; the document that
\* replaced it has an empty history, and undo has just answered false
ReplacedDocumentHistoryWitness ==
  /\ lastOp = "undo" /\ ~ret
  /\ layers = <<"L2">> /\ nextCmdId = 3
  /\ undoStack = <<>> /\ redoStack = <<>> /\ currentMemory = 0

(***************************************************************************)
(* SpecHandles: subscriber objects and the functions subscribe returned    *)
(***************************************************************************)
\* subscribe(subscriber): Map.set(subscriber.id, subscriber); the function it
\* returns is Unsubscribe(subscriber.id)
subscribe(subscriber) ==
  /\ subscribers' = [i \in DOMAIN subscribers \cup {subscriber.id} |->
                       IF i = subscriber.id THEN subscriber ELSE subscribers[i]]
  /\ sync' = [sync EXCEPT !.immediate = NoImmediate]
  /\ UNCHANGED <<pendingEvents, rafId>>

\* two renders of the 2D view's effect and the 3D view's effect: each render
\* builds a new subscriber object, the 2D ones under the same id
SubscriberObjects ==
  {[id |-> "canvas2d", onSync |-> "renderCanvas"],
   [id |-> "canvas2d", onSync |-> "renderCanvas'"],
   [id |-> "viewer3d", onSync |-> "noop"]}

\* query holds the subscriber objects whose subscribe has returned a
\* function, the objects that are subscribed and whose function has not been
\* called since, the object whose function was just called with the
\* subscribers it found, and the objects the last event was passed to
HandlesIdle ==
  query = [handles |-> {}, registered |-> {}, called |-> <<>>, before |-> <<>>,
           notified |-> <<>>]

InitHandles ==
  /\ DocumentInit("skin", ModernHeight)
  /\ HistoryIdle(DefaultMaxMemory, FALSE)
  /\ SyncIdle /\ CompositeIdle /\ HandlesIdle /\ ToolsIdle

HandlesRest == UNCHANGED <<docVars, histVars, composite, toolVars>>

HandlesSubscribe ==
  \E s \in SubscriberObjects \ query.handles :
    /\ subscribe(s)
    /\ query' = [query EXCEPT !.handles = @ \cup {s},
                              !.registered = {r \in @ : r.id # s.id} \cup {s},
                              !.called = <<>>, !.before = <<>>, !.notified = <<>>]
    /\ HandlesRest

HandlesCall ==
  \E s \in query.handles :
    /\ Unsubscribe(s.id)
    /\ query' = [query EXCEPT !.registered = @ \ {s},
                              !.called = <<s>>, !.before = subscribers,
                              !.notified = <<>>]
    /\ HandlesRest

HandlesEmit ==
  /\ Len(pendingEvents) < MaxPending
  /\ \E e \in {FullUpdate, PixelChange(PixelsA)} : Emit(e)
  /\ query' = [query EXCEPT !.called = <<>>, !.before = <<>>, !.notified = <<>>]
  /\ HandlesRest

HandlesEmitImmediate ==
  /\ emitImmediate(FullUpdate)
  /\ query' = [query EXCEPT !.called = <<>>, !.before = <<>>,
                            !.notified = <<{subscribers[i] : i \in DOMAIN sync'.immediate.calls}>>]
  /\ HandlesRest

HandlesTick ==
  /\ FrameTick
  /\ query' = [query EXCEPT !.called = <<>>, !.before = <<>>,
                            !.notified = IF sync'.flushed
                                         THEN <<{subscribers[i] : i \in DOMAIN sync'.delivered}>>
                                         ELSE <<>>]
  /\ HandlesRest

NextHandles ==
  HandlesSubscribe \/ HandlesCall \/ HandlesEmit \/ HandlesEmitImmediate \/ HandlesTick

SpecHandles == InitHandles /\ [][NextHandles]_vars

\* C36: the function subscribe(s) returned removes s and nothing else, so an
\* event is passed to exactly the subscribers that are subscribed and whose
\* own function has not been called, one subscribed later than s under the
\* id of s included
HandleRemovesOnlyItsSubscriber ==
  /\ query.called # <<>> =>
       /\ query.called[1] \notin Range(subscribers)
       /\ Range(subscribers) = Range(query.before) \ {query.called[1]}
  /\ query.notified # <<>> => query.notified[1] = query.registered

(***************************************************************************)
(* SpecThrow: subscribers whose onSync throws                              *)
(***************************************************************************)
\* query holds isProcessing and the ids of the subscribers whose throw the
\* last notification caught and passed to console.error
ThrowIdle == query = [isProcessing |-> FALSE, logged |-> {}]

\* notifySubscribers when the onSync of the subscribers in throwing throw:
\* each throw is caught inside the loop, which goes on to the next subscriber
consoleError(throwing) == {i \in DOMAIN subscribers : i \in throwing}

\* a flush that an exception of onSync leaves before isProcessing = false
flushUncaught(throwing) ==
  IF query.isProcessing \/ Len(pendingEvents) = 0
  THEN /\ sync' = [sync EXCEPT !.immediate = NoImmediate]
       /\ UNCHANGED <<pendingEvents, query>>
  ELSE LET events == coalesceEvents(pendingEvents)
       IN /\ pendingEvents' = <<>>
          /\ sync' = [flushed |-> TRUE, queued |-> pendingEvents,
                      delivered |-> [i \in DOMAIN subscribers |-> events],
                      immediate |-> NoImmediate]
          /\ query' = [isProcessing |-> consoleError(throwing) # {},
                       logged |-> consoleError(throwing)]

\* flush(): nothing while isProcessing or with an empty queue; otherwise
\* isProcessing = true, the queue is coalesced and emptied, notifySubscribers
\* runs for each event, isProcessing = false
flush(throwing) ==
  IF query.isProcessing \/ Len(pendingEvents) = 0
  THEN /\ sync' = [sync EXCEPT !.immediate = NoImmediate]
       /\ UNCHANGED <<pendingEvents, query>>
  ELSE LET events == coalesceEvents(pendingEvents)
       IN /\ pendingEvents' = <<>>
          /\ sync' = [flushed |-> TRUE, queued |-> pendingEvents,
                      delivered |->
                        [i \in DOMAIN subscribers |->
                           [k \in 1..Len(events) |-> notifySubscribers(events[k])[i][1]]],
                      immediate |-> NoImmediate]
          /\ query' = [isProcessing |-> FALSE, logged |-> consoleError(throwing)]

InitThrow ==
  /\ DocumentInit("skin", ModernHeight)
  /\ HistoryIdle(DefaultMaxMemory, FALSE)
  /\ SyncIdle /\ CompositeIdle /\ ThrowIdle /\ ToolsIdle

\* the animation-frame callback: rafId = null, then flush()
ThrowTick ==
  /\ rafId = "live"
  /\ rafId' = "null"
  /\ \E throwing \in SUBSET SubscriberIds : flush(throwing)
  /\ UNCHANGED <<subscribers, docVars, histVars, composite, toolVars>>

ThrowEmitImmediate ==
  /\ \E throwing \in SUBSET SubscriberIds :
       /\ emitImmediate(FullUpdate)
       /\ query' = [query EXCEPT !.logged = consoleError(throwing)]
  /\ UNCHANGED <<docVars, histVars, composite, toolVars>>

ThrowEmit ==
  /\ Len(pendingEvents) < MaxPending
  /\ \E e \in {PixelChange(PixelsA), LayerChange("L1"), FullUpdate} : Emit(e) /\ Rest

NextThrow == SyncSubscribe \/ SyncUnsubscribe \/ ThrowEmit \/ ThrowEmitImmediate \/ ThrowTick

SpecThrow == InitThrow /\ [][NextThrow]_vars

\* C37: when onSync throws during a flush or an emitImmediate, every
\* subscriber is still passed that event and, in a flush, every remaining
\* event; the flush empties the queue and leaves isProcessing false, so the
\* animation frame that finds a non-empty queue always flushes it
ThrowingSubscriberContained ==
  [][/\ ~query'.isProcessing
     /\ (rafId = "live" /\ rafId' = "null" /\ pendingEvents # <<>>) =>
          /\ sync'.flushed
          /\ sync'.queued = pendingEvents
          /\ pendingEvents' = <<>>
          /\ DOMAIN sync'.delivered = DOMAIN subscribers
          /\ \A i \in DOMAIN subscribers :
               sync'.delivered[i] = coalesceEvents(pendingEvents)
     /\ sync'.immediate.event.type # "none" =>
          /\ DOMAIN sync'.immediate.calls = DOMAIN subscribers
          /\ \A i \in DOMAIN subscribers :
               sync'.immediate.calls[i] = <<sync'.immediate.event>>
          /\ UNCHANGED <<pendingEvents, rafId>>]_vars

\* the 2D view's onSync threw on both events of a flush; the 3D view was
\* passed both, the queue is empty and isProcessing is false
ThrowingSubscriberContainedWitness ==
  /\ sync.flushed
  /\ query.logged = {"canvas2d"}
  /\ ~query.isProcessing
  /\ pendingEvents = <<>>
  /\ DOMAIN sync.delivered = SubscriberIds
  /\ Len(sync.delivered["viewer3d"]) = 2
  /\ sync.delivered["canvas2d"] = sync.delivered["viewer3d"]

(***************************************************************************)
(* SpecStroke: strokes of the pencil, the eraser and the noise tool whose  *)
(* moves jump across the front of the head, and bresenhamLine called with  *)
(* every pair of end points whose coordinates lie in -MaxCoord..MaxCoord   *)
(***************************************************************************)
MaxStrokeMoves == 2
StrokePoints == {<<8, 8>>, <<15, 10>>, <<11, 15>>, <<15, 15>>, <<9, 9>>}
StrokeSettings ==
  {[DefaultSettings EXCEPT !.activeTool = id, !.primaryColor = Red,
                           !.secondaryColor = Blue, !.paintTarget = "base"] :
     id \in BrushTools}

\* query holds the end points bresenhamLine was called with and its result
LineIdle == query = [x0 |-> 0, y0 |-> 0, x1 |-> 0, y1 |-> 0, points |-> <<>>]

InitStroke ==
  /\ DocumentInit("image", ModernHeight)
  /\ HistoryIdle(DefaultMaxMemory, FALSE)
  /\ SyncIdle /\ CompositeIdle /\ LineIdle
  /\ cfg \in StrokeSettings
  /\ tool = createToolState(<<0, 0, 0, 255>>)
  /\ gesture = GestureIdle
  /\ view = ViewIdle

StrokeLine ==
  /\ Untouched /\ query.points = <<>>
  /\ \E x0 \in Coords, y0 \in Coords, x1 \in Coords, y1 \in Coords :
       query' = [x0 |-> x0, y0 |-> y0, x1 |-> x1, y1 |-> y1,
                 points |-> bresenhamLine(x0, y0, x1, y1)]
  /\ UNCHANGED <<docVars, histVars, syncVars, composite, toolVars>>

StrokeStart ==
  /\ Untouched /\ query.points = <<>>
  /\ \E point \in StrokePoints, seed \in Seeds(cfg.activeTool) :
       handleStart(point, FALSE, seed)
  /\ UNCHANGED <<layers, usedIds, histVars, syncVars, query, composite, cfg, view>>

StrokeMove ==
  /\ gesture.phase = "drawing" /\ gesture.moves < MaxStrokeMoves
  /\ \E point \in StrokePoints, seed \in Seeds(cfg.activeTool) :
       handleMove(point, gesture.useSecondary, seed)
  /\ UNCHANGED <<layers, usedIds, histVars, syncVars, query, composite, cfg, view>>

StrokeEnd ==
  /\ gesture.phase = "drawing"
  /\ \E point \in StrokePoints : handleEnd(point)
  /\ UNCHANGED <<query, composite, cfg, view>>

NextStroke == StrokeLine \/ StrokeStart \/ StrokeMove \/ StrokeEnd

SpecStroke == InitStroke /\ [][NextStroke]_vars

\* a list of max(|x1-x0|, |y1-y0|) + 1 points in which each point differs
\* from the one before it, by at most 1 in each coordinate
EightConnected(points, x0, y0, x1, y1) ==
  /\ Len(points) = Max(Abs(x1 - x0), Abs(y1 - y0)) + 1
  /\ \A k \in 1..(Len(points) - 1) :
       /\ Abs(points[k + 1][1] - points[k][1]) <= 1
       /\ Abs(points[k + 1][2] - points[k][2]) <= 1
       /\ points[k + 1] # points[k]

\* C38: bresenhamLine returns max(|x1-x0|, |y1-y0|) + 1 points, each next to
\* and different from the one before it, and an onMove of the pencil, the
\* eraser or the noise tool touches every point of the line from the last
\* point to the current one, so the brush centres of a stroke have no gaps
StrokeHasNoGaps ==
  [][/\ query'.points # <<>> =>
          EightConnected(query'.points, query'.x0, query'.y0, query'.x1, query'.y1)
     /\ (gesture'.call = "move" /\ gesture'.moves = gesture.moves + 1) =>
          LET from == tool.lastPoint
              to == tool'.lastPoint
              line == bresenhamLine(from[1], from[2], to[1], to[2])
          IN /\ EightConnected(line, from[1], from[2], to[1], to[2])
             /\ line[1] = from /\ line[Len(line)] = to
             /\ \A k \in 1..Len(line) :
                  MapHas(tool'.changedPixels, line[k][1], line[k][2])]_vars

\* the eraser moved from (8,8) to (15,10) and on to (11,15): the thirteen
\* pixels of the two lines are in changedPixels
StrokeHasNoGapsWitness ==
  /\ cfg.activeTool = "eraser"
  /\ gesture.phase = "drawing" /\ gesture.moves = 2
  /\ tool.startPoint = <<8, 8>> /\ tool.lastPoint = <<11, 15>>
  /\ MapHas(tool.changedPixels, 15, 10)
  /\ Len(tool.changedPixels) = 13

(***************************************************************************)
(* SpecGroup: composite commands whose sub-commands write the same pixels, *)
(* the same properties and the same layers, executed, undone and redone    *)
(***************************************************************************)
MaxGroupExec == 2

\* query holds the document before the last execute or redo and the command
\* that was passed to execute
GroupIdle == query = [before |-> Doc, command |-> Command(0, "none")]

InitGroup ==
  /\ DocumentInit("skin", ModernHeight)
  /\ HistoryIdle(DefaultMaxMemory, FALSE)
  /\ SyncIdle /\ CompositeIdle /\ GroupIdle /\ ToolsIdle

GroupRecord(command, created) ==
  /\ nextCmdId <= MaxGroupExec
  /\ HistoryExecute(command)
  /\ nextCmdId' = nextCmdId + 1
  /\ usedIds' = usedIds \cup created
  /\ query' = [before |-> Doc, command |-> command]
  /\ UNCHANGED <<syncVars, composite, toolVars>>

\* two or three strokes over the same pixel, each built from the document as
\* it is before the composite or as the strokes before it leave it
GroupDraws ==
  \E l \in Range(layers), chained \in BOOLEAN, third \in BOOLEAN :
    LET c1 == StrokeCommand(0, Doc, l, <<P1>>, Red)
        d1 == IF chained THEN CmdExecute(c1, Doc).doc ELSE Doc
        c2 == StrokeCommand(0, d1, l, <<P1, P2>>, Blue)
        d2 == IF chained THEN CmdExecute(c2, d1).doc ELSE Doc
        c3 == StrokeCommand(0, d2, l, <<P2>>, Red)
    IN GroupRecord(CompositeCommand(nextCmdId,
                     IF third THEN <<c1, c2, c3>> ELSE <<c1, c2>>), {})

\* the same property of the same layer set twice, another in between
GroupProperties ==
  \E l \in Range(layers), property \in {"visible", "locked"}, value \in BOOLEAN :
    GroupRecord(CompositeCommand(nextCmdId,
                  <<LayerPropertyCommand(0, l, property, value),
                    LayerPropertyCommand(0, l, "locked", TRUE),
                    LayerPropertyCommand(0, l, property, ~value)>>), {})

\* a layer created, drawn on and hidden; a layer drawn on and deleted
GroupLayers ==
  \/ /\ LayerPool \ usedIds # {}
     /\ GroupRecord(CompositeCommand(nextCmdId,
                      <<CreateLayerCommand(0, FreshLayer, Len(layers)),
                        StrokeCommand(0, Doc, FreshLayer, <<P1>>, Red),
                        LayerPropertyCommand(0, FreshLayer, "visible", FALSE)>>),
                    {FreshLayer})
  \/ \E l \in Range(layers) :
       GroupRecord(CompositeCommand(nextCmdId,
                     <<StrokeCommand(0, Doc, l, <<P1>>, Blue),
                       DeleteLayerCommand(0, l)>>), {})

\* a composite inside a composite, both writing the pixel P1
GroupNested ==
  \E l \in Range(layers) :
    LET c1 == StrokeCommand(0, Doc, l, <<P1>>, Red)
        c2 == StrokeCommand(0, CmdExecute(c1, Doc).doc, l, <<P1, P2>>, Blue)
    IN GroupRecord(CompositeCommand(nextCmdId,
                     <<CompositeCommand(0, <<c1, c2>>),
                       StrokeCommand(0, Doc, l, <<P1>>, Blue)>>), {})

GroupUndo ==
  /\ HistoryUndo
  /\ UNCHANGED <<nextCmdId, usedIds, syncVars, query, composite, toolVars>>

GroupRedo ==
  /\ HistoryRedo
  /\ query' = [query EXCEPT !.before = IF Len(redoStack) > 0 THEN Doc ELSE @]
  /\ UNCHANGED <<nextCmdId, usedIds, syncVars, composite, toolVars>>

NextGroup ==
  GroupDraws \/ GroupProperties \/ GroupLayers \/ GroupNested \/ GroupUndo \/ GroupRedo

SpecGroup == InitGroup /\ [][NextGroup]_vars

\* the sub-commands of a list of two or three executed one after the other,
\* first to last, and undone one after the other, last to first
FirstToLast(cmds, d) ==
  LET d1 == CmdExecute(cmds[1], d).doc
      d2 == CmdExecute(cmds[2], d1).doc
  IN IF Len(cmds) = 2 THEN d2 ELSE CmdExecute(cmds[3], d2).doc
LastToFirst(cmds, d) ==
  LET d3 == IF Len(cmds) = 2 THEN d ELSE CmdUndo(cmds[3], d)
  IN CmdUndo(cmds[1], CmdUndo(cmds[2], d3))
MemoryOfChildren(cmds, obj) ==
  getMemorySize(cmds[1], obj) + getMemorySize(cmds[2], obj)
    + (IF Len(cmds) = 2 THEN 0 ELSE getMemorySize(cmds[3], obj))

\* C39: executing a composite leaves the document its sub-commands leave
\* when executed in list order; undoing it leaves the document they leave
\* when undone in reverse list order, which right after the execute or redo
\* is the document from before it, also when sub-commands write the same
\* pixel or property; its memory estimate is the sum of its sub-commands'
CompositeOrder ==
  [][/\ lastOp' = "execute" =>
          LET c == undoStack'[Len(undoStack')]
          IN /\ Doc' = FirstToLast(query'.command.commands, Doc)
             /\ getMemorySize(c, layerObj') = MemoryOfChildren(c.commands, layerObj')
     /\ (lastOp' = "undo" /\ ret') =>
          LET c == redoStack'[Len(redoStack')]
          IN /\ Doc' = LastToFirst(c.commands, Doc)
             /\ (lastOp = "execute" \/ (lastOp = "redo" /\ ret)) =>
                  Doc' = query.before]_vars

\* three strokes, each built from the document before the composite, wrote
\* P1 and P2 of one layer twice each; the composite has been undone and the
\* layer is as it was
CompositeOrderWitness ==
  /\ lastOp = "undo" /\ ret
  /\ Len(redoStack) = 1 /\ undoStack = <<>>
  /\ Len(redoStack[1].commands) = 3
  /\ redoStack[1].commands[2].kind = "draw"
  /\ redoStack[1].commands[3].originalPixels[1].color
       # redoStack[1].commands[2].newPixels[2].color
  /\ Doc = query.before
  /\ layerObj["L1"] = NewLayer("skin", ModernHeight)

(***************************************************************************)
(* SpecFaces: every pixel of the 64 x 64 texture classified by the         *)
(* validator's tables, by the table of createSkinLayer and by the faces of *)
(* SKIN_UV_MAP                                                             *)
(***************************************************************************)
\* a body part's six faces, each [x1, y1, x2, y2]
BodyPartUV(top, bottom, right, front, left, back) ==
  [top |-> top, bottom |-> bottom, right |-> right, front |-> front,
   left |-> left, back |-> back]

SKIN_UV_MAP ==
  [head |->
     [base |-> BodyPartUV(<<8, 0, 16, 8>>, <<16, 0, 24, 8>>, <<0, 8, 8, 16>>,
                          <<8, 8, 16, 16>>, <<16, 8, 24, 16>>, <<24, 8, 32, 16>>),
      overlay |-> BodyPartUV(<<40, 0, 48, 8>>, <<48, 0, 56, 8>>, <<32, 8, 40, 16>>,
                             <<40, 8, 48, 16>>, <<48, 8, 56, 16>>, <<56, 8, 64, 16>>)],
   body |->
     [base |-> BodyPartUV(<<20, 16, 28, 20>>, <<28, 16, 36, 20>>, <<16, 20, 20, 32>>,
                          <<20, 20, 28, 32>>, <<28, 20, 32, 32>>, <<32, 20, 40, 32>>),
      overlay |-> BodyPartUV(<<20, 32, 28, 36>>, <<28, 32, 36, 36>>, <<16, 36, 20, 48>>,
                             <<20, 36, 28, 48>>, <<28, 36, 32, 48>>, <<32, 36, 40, 48>>)],
   rightArm |->
     [base |-> BodyPartUV(<<44, 16, 48, 20>>, <<48, 16, 52, 20>>, <<40, 20, 44, 32>>,
                          <<44, 20, 48, 32>>, <<48, 20, 52, 32>>, <<52, 20, 56, 32>>),
      overlay |-> BodyPartUV(<<44, 32, 48, 36>>, <<48, 32, 52, 36>>, <<40, 36, 44, 48>>,
                             <<44, 36, 48, 48>>, <<48, 36, 52, 48>>, <<52, 36, 56, 48>>)],
   leftArm |->
     [base |-> BodyPartUV(<<36, 48, 40, 52>>, <<40, 48, 44, 52>>, <<32, 52, 36, 64>>,
                          <<36, 52, 40, 64>>, <<40, 52, 44, 64>>, <<44, 52, 48, 64>>),
      overlay |-> BodyPartUV(<<52, 48, 56, 52>>, <<56, 48, 60, 52>>, <<48, 52, 52, 64>>,
                             <<52, 52, 56, 64>>, <<56, 52, 60, 64>>, <<60, 52, 64, 64>>)],
   rightLeg |->
     [base |-> BodyPartUV(<<4, 16, 8, 20>>, <<8, 16, 12, 20>>, <<0, 20, 4, 32>>,
                          <<4, 20, 8, 32>>, <<8, 20, 12, 32>>, <<12, 20, 16, 32>>),
      overlay |-> BodyPartUV(<<4, 32, 8, 36>>, <<8, 32, 12, 36>>, <<0, 36, 4, 48>>,
                             <<4, 36, 8, 48>>, <<8, 36, 12, 48>>, <<12, 36, 16, 48>>)],
   leftLeg |->
     [base |-> BodyPartUV(<<20, 48, 24, 52>>, <<24, 48, 28, 52>>, <<16, 52, 20, 64>>,
                          <<20, 52, 24, 64>>, <<24, 52, 28, 64>>, <<28, 52, 32, 64>>),
      overlay |-> BodyPartUV(<<4, 48, 8, 52>>, <<8, 48, 12, 52>>, <<0, 52, 4, 64>>,
                             <<4, 52, 8, 64>>, <<8, 52, 12, 64>>, <<12, 52, 16, 64>>)]]

\* the faces of SKIN_UV_MAP that hold the pixel, as <<part, layer, face>>
FacesAt(x, y) ==
  {f \in (DOMAIN SKIN_UV_MAP) \X {"base", "overlay"} \X (DOMAIN SKIN_UV_MAP.head.base) :
     InRegion(x, y, SKIN_UV_MAP[f[1]][f[2]][f[3]])}

InitFaces ==
  /\ DocumentInit("skin", ModernHeight)
  /\ HistoryIdle(DefaultMaxMemory, FALSE)
  /\ SyncIdle /\ CompositeIdle /\ ToolsIdle
  /\ \E x \in 0..(TextureWidth - 1), y \in 0..(ModernHeight - 1) :
       query = [x |-> x, y |-> y, asked |-> FALSE, base |-> FALSE, overlay |-> FALSE,
                filled |-> FALSE, faces |-> {}]

\* the validator's isBasePixel and isOverlayPixel, the isBasePixel of
\* createSkinLayer and the faces of the model's UV map, for one pixel
ClassifyFaces ==
  /\ ~query.asked
  /\ query' = [query EXCEPT
                 !.asked = TRUE,
                 !.base = isBasePixel(query.x, query.y),
                 !.overlay = isOverlayPixel(query.x, query.y),
                 !.filled = \E i \in 1..Len(SKIN_BASE_UV_REGIONS) :
                              InRegion(query.x, query.y, SKIN_BASE_UV_REGIONS[i]),
                 !.faces = FacesAt(query.x, query.y)]
  /\ UNCHANGED <<docVars, histVars, syncVars, composite, toolVars>>

NextFaces == ClassifyFaces

SpecFaces == InitFaces /\ [][NextFaces]_vars

\* C40: a pixel of the 64 x 64 texture is a base pixel exactly when a base
\* face of SKIN_UV_MAP holds it and an overlay pixel exactly when an overlay
\* face holds it, and the table createSkinLayer fills from classifies it as
\* the validator's base table does
TablesMatchFaces ==
  query.asked =>
    /\ query.base <=> \E f \in query.faces : f[2] = "base"
    /\ query.overlay <=> \E f \in query.faces : f[2] = "overlay"
    /\ query.filled <=> query.base

\* the last pixel of the texture lies in the back face of the left arm's
\* overlay and in no other face: an overlay pixel, not a base pixel
TablesMatchFacesWitness ==
  /\ query.asked /\ query.x = 63 /\ query.y = 63
  /\ query.faces = {<<"leftArm", "overlay", "back">>}
  /\ query.overlay /\ ~query.base /\ ~query.filled

====
